---- MODULE Spec2Model ----
(***************************************************************************)
(* Resolution engine of the dependency-injection container: the provider   *)
(* (service-provider.ts) and the scope (service-scope.ts).                 *)
(*                                                                         *)
(* A synchronous call runs to completion inside one action.  An async      *)
(* function runs up to its first await inside the action that calls it and *)
(* leaves a task behind; TaskStep resumes a task whose awaited value has   *)
(* settled.  A factory is  (r) => { r.resolve(dep)...; return new Obj }    *)
(* or  async (r) => { await r.resolveAsync(dep)...; return new Obj } ;     *)
(* either may throw instead of returning.  Instances are numbered from 1;  *)
(* 0 stands for JavaScript's undefined.                                    *)
(*                                                                         *)
(* Spec       lifetimes and caches: one or two services, calls at the      *)
(*            root providers and in scopes                                 *)
(* SpecCycle  two services whose factories resolve each other              *)
(* SpecApi    keyed registrations, optional tokens, tryResolve,            *)
(*            factories that throw or resolve an unregistered token        *)
(* SpecGlobal two GlobalSingleton registrations, one global cache key      *)
(* SpecDispose  disposable services, dispose hooks, dispose()              *)
(* SpecRequest  withScope, the request middleware, withRequestScope        *)
(* SpecMany   several registrations of one token, resolveAll, resolveMap   *)
(* SpecCollection  registrations on a collection, build(), validateGraph  *)
(* SpecTrace  a chain of three services on a provider with options.trace   *)
(* SpecLive   async factories that resolve each other, under fairness      *)
(* SpecNested  a GlobalSingleton whose factory resolves another one        *)
(* SpecLabelled  GlobalSingleton registrations and their derived cache keys*)
(* SpecThrown  a factory that throws, resolved directly and by a factory   *)
(* SpecOverlap  overlapping dispose() calls on one scope                   *)
(* SpecCollected  a factory that calls resolver.resolveAll                 *)
(***************************************************************************)
EXTENDS Integers, Sequences, FiniteSets, TLC

VARIABLES
    descriptors,        \* the flat descriptor list handed to the provider
    singletons,         \* provider -> Map descriptor -> value
    singletonPromises,  \* provider -> Map descriptor -> in-flight promise
    singletonOrder,     \* provider -> descriptors in order of creation
    globalCache,        \* process-wide Map globalKey -> value
    globalPromises,     \* process-wide Map globalKey -> in-flight promise
    scopedInstances,    \* scope -> Map descriptor -> value
    scopedPromises,     \* scope -> Map descriptor -> in-flight promise
    resolutionOrder,    \* scope -> descriptors in order of resolution
    tasks,              \* the async materializations started so far
    invoked,            \* descriptor -> place -> number of factory invocations
    nextId,             \* the next fresh instance
    calls,              \* the top-level API calls made so far
    disposeHandlers,    \* provider or scope -> hooks in registration order
    disposed,           \* scope -> its disposed flag
    disposing,          \* the dispose() calls made so far
    disposeLog,         \* hooks and disposers, as they start and end
    requests,           \* the withScope / request-scope invocations so far
    services,           \* the ServiceCollection: its defaults, its Map
    built,              \* whether build() has made the provider
    registrations,      \* the add...() and build() calls made so far
    diagnostics,        \* the validateGraph() calls made so far
    trace               \* options.trace, and the callbacks run so far

vars == <<descriptors, singletons, singletonPromises, singletonOrder,
          globalCache, globalPromises, scopedInstances, scopedPromises,
          resolutionOrder, tasks, invoked, nextId, calls,
          disposeHandlers, disposed, disposing, disposeLog, requests,
          services, built, registrations, diagnostics, trace>>

\* what only registration, build() and validateGraph() change
collected == <<services, built, registrations, diagnostics>>

-----------------------------------------------------------------------------
(* Bounds *)

\* top-level calls per behaviour of Spec and SpecCycle
MaxCalls == 2
\* top-level calls per behaviour of SpecApi
MaxApiCalls == 1
\* nested resolutions after which the call stack is exhausted (RangeError)
MaxDepth == 4
\* hooks registered per provider or scope
MaxHooks == 2
\* dispose() calls per behaviour
MaxDisposals == 2
\* calls, hooks and dispose() calls per behaviour of SpecDispose; calls,
\* hooks and invocations per behaviour of SpecRequest
MaxOperations == 4
\* withScope / request-scope invocations per behaviour
MaxRequests == 2

-----------------------------------------------------------------------------
(* Values *)

Undefined == 0
NoKey == "undefined"
NoScope == "root"

Providers == {"p1", "p2"}
Scopes == {"s1", "s2", "s3"}
Places == Providers \cup Scopes

\* new ServiceScope(this): the scopes are created by provider p1
ScopeRoot(scope) == "p1"

ProviderOf(place) == IF place \in Scopes THEN ScopeRoot(place) ELSE place
\* mutant: the root provider passes for a scope
ScopeOfRoot(place) == IF place \in Scopes THEN place ELSE "s1"

\* the scope argument of resolveInternal: undefined at the root
ScopeOf(place) == IF place \in Scopes THEN place ELSE NoScope

Transient == "Transient"
Scoped == "Scoped"
Singleton == "Singleton"
GlobalSingleton == "GlobalSingleton"
Lifetimes == {Transient, Scoped, Singleton, GlobalSingleton}

Token(t) == <<"token", t>>
optional(t) == <<"optional", t>>

\* mutant: the optional wrapper is ignored
unwrapTokenRequired(tokenLike) == [token |-> tokenLike[2], optional |-> FALSE]

unwrapToken(tokenLike) ==
    IF tokenLike[1] = "optional"
    THEN [token |-> tokenLike[2], optional |-> TRUE]
    ELSE [token |-> tokenLike[2], optional |-> FALSE]

\* resolver.resolve(token, key) or resolver.resolveAsync(token, key)
Dep(token, key, opt) ==
    [token |-> token, key |-> key, optional |-> opt, all |-> FALSE]

\* resolver.resolveAll(token)
DepAll(token) ==
    [token |-> token, key |-> NoKey, optional |-> FALSE, all |-> TRUE]

Descriptor(token, key, lifetime, isAsync, deps, fails) ==
    [token |-> token, key |-> key, lifetime |-> lifetime, globalKey |-> NoKey,
     isAsync |-> isAsync, deps |-> deps, fails |-> fails,
     disposePriority |-> 0, customDispose |-> FALSE]

\* options { disposePriority }, and a value registered with its own disposer
WithDisposal(descriptor, priority, custom) ==
    [descriptor EXCEPT !.disposePriority = priority, !.customDispose = custom]

\* options { globalKey }
WithGlobalKey(descriptor, globalKey) ==
    [descriptor EXCEPT !.globalKey = globalKey]

\* Outcomes: a returned value, a thrown or rejected error, a pending promise
Ok(v) == [kind |-> "ok", val |-> v, token |-> "", key |-> NoKey,
          path |-> <<>>, tid |-> 0]
Err(kind, token, key, path) ==
    [kind |-> kind, val |-> Undefined, token |-> token, key |-> key,
     path |-> path, tid |-> 0]
PromiseOf(tid) == [kind |-> "promise", val |-> Undefined, token |-> "",
                   key |-> NoKey, path |-> <<>>, tid |-> tid]
Io == [kind |-> "io", val |-> Undefined, token |-> "", key |-> NoKey,
       path |-> <<>>, tid |-> 0]

ErrorKinds == {"MissingServiceError", "CircularDependencyError",
               "AsyncFactoryError", "ScopeResolutionError", "FactoryError",
               "RangeError", "Error"}

IsError(res) == res.kind \in ErrorKinds

-----------------------------------------------------------------------------
(* Map and WeakMap *)

MapHas(m, k) == k \in DOMAIN m
MapGet(m, k) == IF k \in DOMAIN m THEN m[k] ELSE Undefined
MapSet(m, k, v) == [x \in DOMAIN m \cup {k} |-> IF x = k THEN v ELSE m[x]]
MapDelete(m, k) == [x \in DOMAIN m \ {k} |-> m[x]]
EmptyMap == <<>>

-----------------------------------------------------------------------------
(* Labels, frames, pick *)

\* createToken(name): the symbols of the model, each with its description;
\* every other token or key is a string
Symbols == ("S#1" :> "S") @@ ("S#2" :> "S")

\* String(token) of a string, of a symbol
tokenLabel(token) ==
    IF token \in DOMAIN Symbols THEN "Symbol(" \o Symbols[token] \o ")"
    ELSE token

\* key.toString() of a symbol, String(key) of a string
keyLabel(key) ==
    IF key \in DOMAIN Symbols THEN "Symbol(" \o Symbols[key] \o ")"
    ELSE key

globalKeyFor(descriptor) ==
    IF descriptor.globalKey # NoKey
    THEN descriptor.globalKey
    ELSE IF descriptor.key # NoKey
         THEN tokenLabel(descriptor.token) \o ":" \o keyLabel(descriptor.key)
         ELSE tokenLabel(descriptor.token)

Frame(token, key) == [token |-> token, key |-> key]

isSameFrame(a, b) == a.token = b.token /\ a.key = b.key

\* this.descriptors.get(token): the descriptors of a token, in list order
Grouped(list, token) ==
    SelectSeq([i \in 1..Len(list) |-> i], LAMBDA i : list[i].token = token)

\* mutant: without a key the first registration wins
pickDescriptorFirst(list, token, key) ==
    LET ds == Grouped(list, token) IN
    IF Len(ds) = 0 THEN 0
    ELSE IF key = NoKey THEN ds[1]
    ELSE LET hits == SelectSeq(ds, LAMBDA i : list[i].key = key) IN
         IF Len(hits) = 0 THEN 0 ELSE hits[1]

pickDescriptor(list, token, key) ==
    LET ds == Grouped(list, token) IN
    IF Len(ds) = 0 THEN 0
    ELSE IF key = NoKey THEN ds[Len(ds)]
    ELSE LET hits == SelectSeq(ds, LAMBDA i : list[i].key = key) IN
         IF Len(hits) = 0 THEN 0 ELSE hits[1]

\* mutant: the latest resolution is put first
recordResolutionFirst(order, d) ==
    IF \E i \in 1..Len(order) : order[i] = d THEN order ELSE <<d>> \o order

\* if (!order.includes(descriptor)) order.push(descriptor)
recordResolution(order, d) ==
    IF \E i \in 1..Len(order) : order[i] = d THEN order ELSE Append(order, d)

-----------------------------------------------------------------------------
(* The engine's mutable state, threaded through one synchronous run *)

St == [singletons |-> singletons, singletonPromises |-> singletonPromises,
       singletonOrder |-> singletonOrder, globalCache |-> globalCache,
       globalPromises |-> globalPromises, scopedInstances |-> scopedInstances,
       scopedPromises |-> scopedPromises, resolutionOrder |-> resolutionOrder,
       tasks |-> tasks, invoked |-> invoked, nextId |-> nextId,
       trace |-> trace]

Out(st, res) == [st |-> st, res |-> res]

PlaceOf(p, scope) == IF scope = NoScope THEN p ELSE scope

DepTokenLike(dep) == IF dep.optional THEN optional(dep.token) ELSE Token(dep.token)

NewTask(d, p, scope, stack, di, wait, factoryDone) ==
    [d |-> d, p |-> p, scope |-> scope, stack |-> stack, tier |-> "none",
     di |-> di, wait |-> wait, factoryDone |-> factoryDone,
     status |-> "pending", res |-> Io]

\* descriptor.key ?? key
frameFor(descriptor, token, key) ==
    Frame(token, IF descriptor.key # NoKey THEN descriptor.key ELSE key)

\* stack.some((f) => isSameFrame(f, frame))
inStack(stack, frame) == \E i \in 1..Len(stack) : isSameFrame(stack[i], frame)

\* mutant: the singleton cache is never hit
existingSingletonMiss(st, p, d) == Undefined

\* this.singletons.get(descriptor)
existingSingleton(st, p, d) == MapGet(st.singletons[p], d)

\* mutant: an in-flight singleton materialization is never seen
inflightSingletonMiss(st, p, d) == Undefined

\* this.singletonPromises.get(descriptor)
inflightSingleton(st, p, d) == MapGet(st.singletonPromises[p], d)

\* mutant: the process-global cache never has the key
hasGlobalNever(st, globalKey) == FALSE

\* this.globalCache.has(globalKey)
hasGlobal(st, globalKey) == MapHas(st.globalCache, globalKey)

\* this.globalPromises.get(globalKey)
inflightGlobal(st, globalKey) == MapGet(st.globalPromises, globalKey)

\* mutant: the scope's cache is never hit
getCachedMiss(st, scope, d) == Undefined

\* scope.getCached(descriptor)
getCached(st, scope, d) == MapGet(st.scopedInstances[scope], d)

\* scope.getPending(descriptor)
getPending(st, scope, d) == MapGet(st.scopedPromises[scope], d)

\* singletons.set; singletonDescriptors.add; recordSingletonResolution
setSingleton(st, p, d, value) ==
    [st EXCEPT !.singletons[p] = MapSet(@, d, value),
               !.singletonOrder[p] = recordResolution(@, d)]

\* mutant: the created value is not stored
setGlobalNot(st, globalKey, value) == st

\* this.globalCache.set(globalKey, created)
setGlobal(st, globalKey, value) ==
    [st EXCEPT !.globalCache = MapSet(@, globalKey, value)]

\* scope.setInstance(descriptor, value)
setInstance(st, scope, d, value) ==
    [st EXCEPT !.scopedInstances[scope] = MapSet(@, d, value),
               !.scopedPromises[scope] = MapDelete(@, d),
               !.resolutionOrder[scope] = recordResolution(@, d)]

\* scope.getOrCreate: scopedInstances.set; recordResolution
storeCreated(st, scope, d, value) ==
    [st EXCEPT !.scopedInstances[scope] = MapSet(@, d, value),
               !.resolutionOrder[scope] = recordResolution(@, d)]

\* a callback the provider runs: options.trace with a TraceEvent, or a
\* factory; the log is kept when options.trace is set
Callback(kind, d, token, key, lifetime, path, async) ==
    [kind |-> kind, d |-> d, token |-> token, key |-> key,
     lifetime |-> lifetime, path |-> path, async |-> async]

\* the factory runs: one more invocation at this place
countInvocation(st, d, p, scope) ==
    [st EXCEPT !.invoked[d][PlaceOf(p, scope)] = @ + 1,
               !.trace.events =
                   IF st.trace.configured
                   THEN Append(@, Callback("factory", d, descriptors[d].token,
                                           descriptors[d].key,
                                           descriptors[d].lifetime, <<>>,
                                           descriptors[d].isAsync))
                   ELSE @]

\* `${tokenLabel(frame.token)}${frame.key !== undefined ? `(${key})` : ""}`
formatFrame(frame) ==
    IF frame.key # NoKey
    THEN tokenLabel(frame.token) \o "(" \o keyLabel(frame.key) \o ")"
    ELSE tokenLabel(frame.token)

\* path.map((p) => formatFrame(p))
formatPath(path) == [i \in 1..Len(path) |-> formatFrame(path[i])]

\* mutant: only the selection of a top-level call is traced
traceTopLevel(st, d, path, async) ==
    IF ~st.trace.configured \/ Len(path) > 1 THEN st
    ELSE [st EXCEPT !.trace.events =
             Append(@, Callback("trace", d, descriptors[d].token,
                                descriptors[d].key, descriptors[d].lifetime,
                                formatPath(path), async))]

\* this.trace(nextStack, descriptor, asyncMode): the callback is given the
\* token, key and lifetime of the descriptor, the path and the async flag
traceSelection(st, d, path, async) ==
    IF ~st.trace.configured THEN st
    ELSE [st EXCEPT !.trace.events =
             Append(@, Callback("trace", d, descriptors[d].token,
                                descriptors[d].key, descriptors[d].lifetime,
                                formatPath(path), async))]

\* const x = <call>; <rest using x>
Then(x, F(_)) == F(x)

RECURSIVE resolveInternal(_, _, _, _, _, _, _, _)
RECURSIVE resolveDescriptorSync(_, _, _, _, _, _)
RECURSIVE resolveDescriptorAsync(_, _, _, _, _, _)
RECURSIVE materializeSync(_, _, _, _, _, _)
RECURSIVE materializeAsync(_, _, _, _, _, _)
RECURSIVE getOrCreate(_, _, _, _)
RECURSIVE invokeFactory(_, _, _, _, _, _)
RECURSIVE resolveDeps(_, _, _, _, _, _, _)

RECURSIVE resolveEach(_, _, _, _, _, _)
\* descriptors.map((d) => resolveDescriptorSync(d, scope, [])) made by a
\* factory
resolveEach(st, ds, i, p, scope, depth) ==
    IF i > Len(ds) THEN Out(st, Ok(Undefined))
    ELSE Then(resolveDescriptorSync(st, ds[i], p, scope, <<>>, depth),
              LAMBDA r : IF IsError(r.res) THEN r
                         ELSE resolveEach(r.st, ds, i + 1, p, scope, depth))

\* the scope that resolveAll of a factory's resolver resolves in: the
\* resolver of createScopedResolver, bound to a path that holds the
\* factory's frame, calls provider.resolveAll, which passes no scope;
\* getOrCreate hands the factory the scope itself, with no path, and
\* scope.resolveAll passes that scope
scopeOfAll(scope, stack) == IF stack = <<>> THEN scope ELSE NoScope

\* what a factory asks of the resolver made by createScopedResolver
resolverCall(st, dep, p, scope, stack, asyncMode, depth) ==
    IF dep.all
    THEN IF depth > MaxDepth
         THEN Out(st, Err("RangeError", "", NoKey, stack))
         ELSE resolveEach(st, Grouped(descriptors, dep.token), 1, p,
                          scopeOfAll(scope, stack), depth)
    ELSE resolveInternal(st, p, scope, DepTokenLike(dep), dep.key, stack,
                         asyncMode, depth)

\* the factory's synchronous body: r.resolve(dep) for each dependency
resolveDeps(st, d, i, p, scope, stack, depth) ==
    LET deps == descriptors[d].deps IN
    IF i > Len(deps) THEN Out(st, Ok(Undefined))
    ELSE Then(resolverCall(st, deps[i], p, scope, stack, FALSE, depth + 1),
              LAMBDA r : IF IsError(r.res) THEN r
                         ELSE resolveDeps(r.st, d, i + 1, p, scope, stack,
                                          depth))

\* mutant: a factory that throws is taken to have returned undefined
factoryRecovers(r, desc, stack) ==
    IF IsError(r.res) THEN r
    ELSE IF desc.fails THEN Out(r.st, Ok(Undefined))
    ELSE Out([r.st EXCEPT !.nextId = @ + 1], Ok(r.st.nextId))

\* a synchronous factory returns a new object, or throws
factoryReturns(r, desc, stack) ==
    IF IsError(r.res) THEN r
    ELSE IF desc.fails
    THEN Out(r.st, Err("FactoryError", desc.token, desc.key, stack))
    ELSE Out([r.st EXCEPT !.nextId = @ + 1], Ok(r.st.nextId))

\* an async factory has reached an await: its promise is a new task
factorySuspends(w, d, p, scope, stack, di) ==
    Out([w.st EXCEPT !.tasks =
            Append(@, NewTask(d, p, scope, stack, di, w.res, FALSE))],
        PromiseOf(Len(w.st.tasks) + 1))

\* descriptor.factory(resolver), the resolver bound to (scope, stack)
invokeFactory(st, d, p, scope, stack, depth) ==
    LET desc == descriptors[d]
        st1 == countInvocation(st, d, p, scope)
    IN IF ~desc.isAsync
       THEN factoryReturns(resolveDeps(st1, d, 1, p, scope, stack, depth),
                           desc, stack)
       ELSE IF Len(desc.deps) = 0
       THEN factorySuspends(Out(st1, Io), d, p, scope, stack, 0)
       ELSE factorySuspends(
                resolverCall(st1, desc.deps[1], p, scope, stack, TRUE,
                             depth + 1),
                d, p, scope, stack, 1)

\* mutant: a promise passes for an instance
rejectPromiseNot(r, err) == r

\* if (isPromise(instance)) throw new AsyncFactoryError(...)
rejectPromise(r, err) == IF r.res.kind = "promise" THEN Out(r.st, err) ELSE r

\* this.singletons.set(descriptor, created) unless materializeSync threw
createdSingleton(m, p, d) ==
    IF IsError(m.res) THEN m
    ELSE Out(setSingleton(m.st, p, d, m.res.val), m.res)

\* this.globalCache.set(globalKey, created) unless materializeSync threw
createdGlobal(m, globalKey) ==
    IF IsError(m.res) THEN m
    ELSE Out(setGlobal(m.st, globalKey, m.res.val), m.res)

\* mutant: what is materialized is also kept by the provider
materializeSyncKept(st, d, p, scope, stack, depth) ==
    createdSingleton(rejectPromise(invokeFactory(st, d, p, scope, stack, depth),
                                   Err("AsyncFactoryError", descriptors[d].token,
                                       descriptors[d].key, stack)),
                     p, d)

materializeSync(st, d, p, scope, stack, depth) ==
    rejectPromise(invokeFactory(st, d, p, scope, stack, depth),
                  Err("AsyncFactoryError", descriptors[d].token,
                      descriptors[d].key, stack))

\* return (await instance): the promise returned is a task
awaitInstance(r, d, p, scope, stack) ==
    IF r.res.kind = "promise" THEN r
    ELSE Out([r.st EXCEPT !.tasks =
                 Append(@, NewTask(d, p, scope, stack, 0, r.res, TRUE))],
             PromiseOf(Len(r.st.tasks) + 1))

materializeAsync(st, d, p, scope, stack, depth) ==
    awaitInstance(invokeFactory(st, d, p, scope, stack, depth),
                  d, p, scope, stack)

\* scopedInstances.set(descriptor, instance) unless the factory threw
created(r, scope, d) ==
    IF IsError(r.res) THEN r
    ELSE Out(storeCreated(r.st, scope, d, r.res.val), r.res)

\* the factory is handed the scope itself: scope.resolve starts a new path
getOrCreate(st, d, scope, depth) ==
    IF MapHas(st.scopedInstances[scope], d)
    THEN Out(st, Ok(st.scopedInstances[scope][d]))
    ELSE created(rejectPromise(
                     invokeFactory(st, d, ScopeRoot(scope), scope, <<>>, depth),
                     Err("AsyncFactoryError", "", NoKey, <<>>)),
                 scope, d)

resolveDescriptorSync(st, d, p, scope, stack, depth) ==
    LET desc == descriptors[d]
        globalKey == globalKeyFor(desc)
        asyncFactoryError == Err("AsyncFactoryError", desc.token, desc.key, stack)
    IN
    CASE desc.lifetime = Singleton ->
           IF existingSingleton(st, p, d) # Undefined
           THEN Out(st, Ok(existingSingleton(st, p, d)))
           ELSE IF inflightSingleton(st, p, d) # Undefined
           THEN Out(st, asyncFactoryError)
           ELSE createdSingleton(
                    materializeSync(st, d, p, scope, stack, depth), p, d)
      [] desc.lifetime = GlobalSingleton ->
           IF hasGlobal(st, globalKey)
           THEN Out(st, Ok(st.globalCache[globalKey]))
           ELSE IF MapHas(st.globalPromises, globalKey)
           THEN Out(st, asyncFactoryError)
           ELSE createdGlobal(
                    materializeSync(st, d, p, scope, stack, depth), globalKey)
      [] desc.lifetime = Scoped ->
           IF scope = NoScope
           THEN Out(st, Err("ScopeResolutionError", desc.token, desc.key, stack))
           ELSE IF getPending(st, scope, d) # Undefined
           THEN Out(st, asyncFactoryError)
           ELSE IF getCached(st, scope, d) # Undefined
           THEN Out(st, Ok(getCached(st, scope, d)))
           ELSE getOrCreate(st, d, scope, depth)
      [] OTHER -> materializeSync(st, d, p, scope, stack, depth)

\* singletonPromises.set(descriptor, promise)
pendingSingleton(m, p, d) ==
    Out([m.st EXCEPT !.singletonPromises[p] = MapSet(@, d, m.res.tid),
                     !.tasks[m.res.tid].tier = Singleton], m.res)

\* globalPromises.set(globalKey, promise)
pendingGlobal(m, globalKey) ==
    Out([m.st EXCEPT !.globalPromises = MapSet(@, globalKey, m.res.tid),
                     !.tasks[m.res.tid].tier = GlobalSingleton], m.res)

\* scope.setPending(descriptor, promise)
setPending(m, scope, d) ==
    Out([m.st EXCEPT !.scopedPromises[scope] = MapSet(@, d, m.res.tid),
                     !.tasks[m.res.tid].tier = Scoped], m.res)

\* an async function up to its first await; what it does after `await
\* promise` is done by Complete when the task settles
resolveDescriptorAsync(st, d, p, scope, stack, depth) ==
    LET desc == descriptors[d]
        globalKey == globalKeyFor(desc)
    IN
    CASE desc.lifetime = Singleton ->
           IF existingSingleton(st, p, d) # Undefined
           THEN Out(st, Ok(existingSingleton(st, p, d)))
           ELSE IF inflightSingleton(st, p, d) # Undefined
           THEN Out(st, PromiseOf(inflightSingleton(st, p, d)))
           ELSE pendingSingleton(
                    materializeAsync(st, d, p, scope, stack, depth), p, d)
      [] desc.lifetime = GlobalSingleton ->
           IF hasGlobal(st, globalKey)
           THEN Out(st, Ok(st.globalCache[globalKey]))
           ELSE IF inflightGlobal(st, globalKey) # Undefined
           THEN Out(st, PromiseOf(inflightGlobal(st, globalKey)))
           ELSE pendingGlobal(
                    materializeAsync(st, d, p, scope, stack, depth), globalKey)
      [] desc.lifetime = Scoped ->
           IF scope = NoScope
           THEN Out(st, Err("ScopeResolutionError", desc.token, desc.key, stack))
           ELSE IF getCached(st, scope, d) # Undefined
           THEN Out(st, Ok(getCached(st, scope, d)))
           ELSE IF getPending(st, scope, d) # Undefined
           THEN Out(st, PromiseOf(getPending(st, scope, d)))
           ELSE setPending(
                    materializeAsync(st, d, p, scope, stack, depth), scope, d)
      [] OTHER -> materializeAsync(st, d, p, scope, stack, depth)

\* the descriptor is selected: cycle test, then dispatch by lifetime
resolveSelected(st, d, p, scope, frame, stack, asyncMode, depth) ==
    IF inStack(stack, frame)
    THEN Out(st, Err("CircularDependencyError", "", NoKey,
                     Append(stack, frame)))
    ELSE IF asyncMode
    THEN resolveDescriptorAsync(
             traceSelection(st, d, Append(stack, frame), asyncMode),
             d, p, scope, Append(stack, frame), depth)
    ELSE resolveDescriptorSync(
             traceSelection(st, d, Append(stack, frame), asyncMode),
             d, p, scope, Append(stack, frame), depth)

resolveInternal(st, p, scope, tokenLike, key, stack, asyncMode, depth) ==
    IF depth > MaxDepth
    THEN Out(st, Err("RangeError", "", NoKey, stack))
    ELSE
    LET u == unwrapToken(tokenLike)
        d == pickDescriptor(descriptors, u.token, key)
    IN IF d = 0
       THEN IF u.optional THEN Out(st, Ok(Undefined))
            ELSE Out(st, Err("MissingServiceError", u.token, key, stack))
       ELSE resolveSelected(st, d, p, scope,
                            frameFor(descriptors[d], u.token, key), stack,
                            asyncMode, depth)

-----------------------------------------------------------------------------
(* Tasks: the part of an async materialization that runs after an await *)

Ready(st, wait) ==
    IF wait.kind = "promise"
    THEN st.tasks[wait.tid].status # "pending"
    ELSE TRUE

Settled(st, wait) ==
    IF wait.kind = "promise" THEN st.tasks[wait.tid].res ELSE wait

\* `await promise` throws: the async function ends rejected, nothing is
\* deleted from the in-flight map
Reject(st, t, err) ==
    [st EXCEPT !.tasks[t].status = "rejected", !.tasks[t].res = err]

\* the lines after `const created = await promise`
Complete(st, t, value) ==
    LET task == st.tasks[t]
        globalKey == globalKeyFor(descriptors[task.d])
        st1 == [st EXCEPT !.tasks[t].status = "fulfilled",
                          !.tasks[t].res = Ok(value)]
    IN CASE task.tier = Singleton ->
              setSingleton([st1 EXCEPT !.singletonPromises[task.p] =
                                           MapDelete(@, task.d)],
                           task.p, task.d, value)
         [] task.tier = GlobalSingleton ->
              setGlobal([st1 EXCEPT !.globalPromises =
                                        MapDelete(@, globalKey)],
                        globalKey, value)
         [] task.tier = Scoped -> setInstance(st1, task.scope, task.d, value)
         [] OTHER -> st1

\* the factory awaits its next dependency
awaitNext(r, t, di) ==
    [r.st EXCEPT !.tasks[t].di = di, !.tasks[t].wait = r.res]

\* an async factory resumes after an await
resumeTask(st, t) ==
    LET task == st.tasks[t]
        desc == descriptors[task.d]
        w == Settled(st, task.wait)
    IN IF IsError(w) THEN Reject(st, t, w)
       ELSE IF task.factoryDone THEN Complete(st, t, w.val)
       ELSE IF task.di < Len(desc.deps)
       THEN awaitNext(resolverCall(st, desc.deps[task.di + 1], task.p,
                                   task.scope, task.stack, TRUE, 1),
                      t, task.di + 1)
       ELSE IF desc.fails
       THEN Reject(st, t, Err("FactoryError", desc.token, desc.key, task.stack))
       ELSE Complete([st EXCEPT !.nextId = @ + 1], t, st.nextId)

-----------------------------------------------------------------------------
(* Actions *)

Install(st) ==
    /\ singletons' = st.singletons
    /\ singletonPromises' = st.singletonPromises
    /\ singletonOrder' = st.singletonOrder
    /\ globalCache' = st.globalCache
    /\ globalPromises' = st.globalPromises
    /\ scopedInstances' = st.scopedInstances
    /\ scopedPromises' = st.scopedPromises
    /\ resolutionOrder' = st.resolutionOrder
    /\ tasks' = st.tasks
    /\ invoked' = st.invoked
    /\ nextId' = st.nextId
    /\ trace' = st.trace
    /\ UNCHANGED <<descriptors, collected, disposeHandlers, disposed, disposing,
                   disposeLog, requests>>

\* mutant: the top-level calls push their frames on one path
newPathShared(st) ==
    IF st.tasks = <<>> THEN <<>> ELSE st.tasks[Len(st.tasks)].stack

\* the `[]` that resolve() and resolveAsync() hand to resolveInternal
newPath(st) == <<>>

\* a top-level call: what was asked, the promise awaited, what came back,
\* and how many dispose() calls had completed before the call
Call(api, place, tokenLike, key, status, wait, inner, res) ==
    [api |-> api, place |-> place, tokenLike |-> tokenLike, key |-> key,
     status |-> status, wait |-> wait, inner |-> inner, res |-> res,
     seen |-> Len(SelectSeq(disposing, LAMBDA c : c.stage = "done"))]

\* mutant: only a missing service is caught
catchMissing(res) ==
    IF res.kind = "MissingServiceError" THEN Ok(Undefined) ELSE res

\* try { ... } catch { return undefined }
catchAll(res) == IF IsError(res) THEN Ok(Undefined) ELSE res

\* the caller's `await`: a call waiting for a settled value is done
settleCalls(cs, st) ==
    [c \in 1..Len(cs) |->
        IF cs[c].status = "pending" /\ Ready(st, cs[c].wait)
        THEN [cs[c] EXCEPT !.status = "done",
                           !.inner = Settled(st, cs[c].wait),
                           !.res = IF cs[c].api = "tryResolveAsync"
                                   THEN catchAll(Settled(st, cs[c].wait))
                                   ELSE Settled(st, cs[c].wait)]
        ELSE cs[c]]

\* return this.resolveInternal(token, scope, key, [], false)
returned(o, api, place, tokenLike, key) ==
    /\ Install(o.st)
    /\ calls' = Append(calls, Call(api, place, tokenLike, key, "done", o.res,
                                   o.res, IF api = "tryResolve"
                                          THEN catchAll(o.res) ELSE o.res))

\* return await this.resolveInternal(token, scope, key, [], true)
awaited(o, api, place, tokenLike, key) ==
    /\ Install(o.st)
    /\ calls' = settleCalls(Append(calls, Call(api, place, tokenLike, key,
                                               "pending", o.res, Io, Io)),
                            o.st)

\* provider.resolve / scope.resolve
Resolve(place, tokenLike, key) ==
    /\ Len(calls) < MaxCalls
    /\ returned(resolveInternal(St, ProviderOf(place), ScopeOf(place),
                                tokenLike, key, newPath(St), FALSE, 1),
                "resolve", place, tokenLike, key)

\* provider.tryResolve / scope.tryResolve
TryResolve(place, tokenLike, key) ==
    /\ Len(calls) < MaxCalls
    /\ returned(resolveInternal(St, ProviderOf(place), ScopeOf(place),
                                tokenLike, key, newPath(St), FALSE, 1),
                "tryResolve", place, tokenLike, key)

\* provider.resolveAsync / scope.resolveAsync
ResolveAsync(place, tokenLike, key) ==
    /\ Len(calls) < MaxCalls
    /\ awaited(resolveInternal(St, ProviderOf(place), ScopeOf(place),
                               tokenLike, key, newPath(St), TRUE, 1),
               "resolveAsync", place, tokenLike, key)

\* provider.tryResolveAsync / scope.tryResolveAsync
TryResolveAsync(place, tokenLike, key) ==
    /\ Len(calls) < MaxCalls
    /\ awaited(resolveInternal(St, ProviderOf(place), ScopeOf(place),
                               tokenLike, key, newPath(St), TRUE, 1),
               "tryResolveAsync", place, tokenLike, key)

\* the state after a task has run, and the calls it settles
resumed(st) ==
    /\ Install(st)
    /\ calls' = settleCalls(calls, st)

\* a task whose awaited value has settled runs to its next await or its end
TaskStep(t) ==
    /\ tasks[t].status = "pending"
    /\ Ready(St, tasks[t].wait)
    /\ resumed(resumeTask(St, t))

-----------------------------------------------------------------------------
(* resolveAll and resolveMap *)

RECURSIVE mapDescriptors(_, _, _, _, _, _)
RECURSIVE fillMap(_, _, _, _, _, _)

\* descriptors.map((d) => this.resolveDescriptorSync(d, scope, [])): the
\* first resolution that throws ends the call
mapDescriptors(st, ds, i, p, scope, list) ==
    IF i > Len(ds) THEN Out(st, Ok(list))
    ELSE Then(resolveDescriptorSync(st, ds[i], p, scope, <<>>, 1),
              LAMBDA r : IF IsError(r.res) THEN r
                         ELSE mapDescriptors(r.st, ds, i + 1, p, scope,
                                             Append(list, r.res.val)))

\* mutant: only the registrations without a key are resolved
resolveAllKeyless(st, p, scope, token) ==
    mapDescriptors(st,
                   SelectSeq(Grouped(descriptors, token),
                             LAMBDA d : descriptors[d].key = NoKey),
                   1, p, scope, <<>>)

\* provider.resolveAll(token) with no scope, scope.resolveAll(token)
resolveAll(st, p, scope, token) ==
    mapDescriptors(st, Grouped(descriptors, token), 1, p, scope, <<>>)

\* the properties that every object literal inherits from Object.prototype
ObjectPrototype == {"constructor", "toString"}

\* what an inherited property holds: a function, not undefined
Inherited == -1

\* map[key] on  const map = {}  with the own properties in `map`
lookup(map, key) ==
    IF key \in DOMAIN map THEN map[key]
    ELSE IF key \in ObjectPrototype THEN Inherited
    ELSE Undefined

\* for (const d of descriptors) { ... map[d.key] = resolveDescriptorSync }
fillMap(st, ds, i, p, token, map) ==
    IF i > Len(ds) THEN Out(st, Ok(map))
    ELSE IF descriptors[ds[i]].key = NoKey
    THEN Out(st, Err("Error", token, NoKey, <<>>))
    ELSE IF lookup(map, descriptors[ds[i]].key) # Undefined
    THEN Out(st, Err("Error", token, descriptors[ds[i]].key, <<>>))
    ELSE Then(resolveDescriptorSync(st, ds[i], p, NoScope, <<>>, 1),
              LAMBDA r : IF IsError(r.res) THEN r
                         ELSE fillMap(r.st, ds, i + 1, p, token,
                                      MapSet(map, descriptors[ds[i]].key,
                                             r.res.val)))

\* provider.resolveMap(token)
resolveMap(st, p, token) ==
    fillMap(st, Grouped(descriptors, token), 1, p, token, EmptyMap)

\* provider.resolveAll / scope.resolveAll
ResolveAll(place, token) ==
    /\ Len(calls) < MaxCalls
    /\ returned(resolveAll(St, ProviderOf(place), ScopeOf(place), token),
                "resolveAll", place, Token(token), NoKey)

\* provider.resolveMap
ResolveMap(p, token) ==
    /\ Len(calls) < MaxCalls
    /\ returned(resolveMap(St, p, token), "resolveMap", p, Token(token),
                NoKey)

-----------------------------------------------------------------------------
(* Disposal.  dispose() is an async function: it runs up to its first      *)
(* await inside the action that calls it; DisposeStep resumes it after the *)
(* awaited hook or disposers have completed.  Every instance has a         *)
(* dispose method; hooks and disposers are async functions that complete   *)
(* without throwing: each returns a promise when invoked ("start"), which  *)
(* has settled ("end") by the time the await on it resumes.                *)

RemoveAt(seq, i) ==
    [j \in 1..(Len(seq) - 1) |-> IF j < i THEN seq[j] ELSE seq[j + 1]]

\* mutant: the hooks run in registration order
unsortedHandlers(hs) == hs

\* [...handlers].sort((a, b) => b.priority - a.priority): a stable sort
RECURSIVE sortHandlers(_)
sortHandlers(hs) ==
    IF hs = <<>> THEN <<>>
    ELSE LET i == CHOOSE i \in 1..Len(hs) :
                    \A j \in 1..Len(hs) :
                        \/ hs[j].priority < hs[i].priority
                        \/ hs[j].priority = hs[i].priority /\ j >= i
         IN <<hs[i]>> \o sortHandlers(RemoveAt(hs, i))

\* mutant: equal priorities keep their resolution order
RECURSIVE sortByPriorityForward(_)
sortByPriorityForward(items) ==
    IF items = <<>> THEN <<>>
    ELSE LET i == CHOOSE i \in 1..Len(items) :
                    \A j \in 1..Len(items) :
                        \/ descriptors[items[j]].disposePriority
                              < descriptors[items[i]].disposePriority
                        \/ /\ descriptors[items[j]].disposePriority
                                 = descriptors[items[i]].disposePriority
                           /\ j >= i
         IN <<items[i]>> \o sortByPriorityForward(RemoveAt(items, i))

\* priority descending, then items.indexOf(b) - items.indexOf(a)
RECURSIVE sortByPriorityAndOrder(_)
sortByPriorityAndOrder(items) ==
    IF items = <<>> THEN <<>>
    ELSE LET i == CHOOSE i \in 1..Len(items) :
                    \A j \in 1..Len(items) :
                        \/ descriptors[items[j]].disposePriority
                              < descriptors[items[i]].disposePriority
                        \/ /\ descriptors[items[j]].disposePriority
                                 = descriptors[items[i]].disposePriority
                           /\ j <= i
         IN <<items[i]>> \o sortByPriorityAndOrder(RemoveAt(items, i))

\* mutant: the scopes share one resolution order
OwnerOrderShared(owner) ==
    IF owner \in Scopes
    THEN resolutionOrder["s1"] \o resolutionOrder["s2"]
    ELSE singletonOrder[owner]

\* this.resolutionOrder of a scope, this.singletonOrder of a provider
OwnerOrder(owner) ==
    IF owner \in Scopes THEN resolutionOrder[owner] ELSE singletonOrder[owner]

\* mutant: a provider looks its instances up in a scope
OwnerValueScoped(owner, d) == MapGet(scopedInstances["s1"], d)

\* this.scopedInstances.get(d) of a scope, this.singletons.get(d) of a provider
OwnerValue(owner, d) ==
    IF owner \in Scopes
    THEN MapGet(scopedInstances[owner], d)
    ELSE MapGet(singletons[owner], d)

\* the recorded descriptors whose instance is not undefined, sorted
instancesOf(owner) ==
    sortByPriorityAndOrder(
        SelectSeq(OwnerOrder(owner),
                  LAMBDA d : OwnerValue(owner, d) # Undefined))

\* the recorded descriptors registered with a custom disposer, sorted
customsOf(owner) ==
    sortByPriorityAndOrder(
        SelectSeq(OwnerOrder(owner), LAMBDA d : descriptors[d].customDispose))

Event(ev, what, owner, call, d, x) ==
    [ev |-> ev, what |-> what, owner |-> owner, call |-> call, d |-> d,
     x |-> x]

\* a hook is invoked / its promise has settled
hookEvent(ev, owner, call, handler) ==
    Event(ev, "hook", owner, call, 0, handler.id)

\* disposeMany: the disposers are invoked one after the other, in list
\* order, before any of them is awaited
instanceEvents(ev, owner, call, ds) ==
    [i \in 1..Len(ds) |->
        Event(ev, "instance", owner, call, ds[i], OwnerValue(owner, ds[i]))]

customEvents(ev, owner, call, ds) ==
    [i \in 1..Len(ds) |-> Event(ev, "custom", owner, call, ds[i], 0)]

DisposeCall(owner, stage, handlers, i, started, noop) ==
    [owner |-> owner, stage |-> stage, handlers |-> handlers, i |-> i,
     started |-> started, noop |-> noop]

\* scope.onDispose / onDisposeWithPriority, provider.onDispose / ...
OnDispose(owner, priority) ==
    /\ Len(disposeHandlers[owner]) < MaxHooks
    /\ disposeHandlers' =
          [disposeHandlers EXCEPT ![owner] =
              Append(@, [id |-> Len(@) + 1, priority |-> priority])]
    /\ UNCHANGED <<descriptors, collected, singletons, singletonPromises, singletonOrder,
                   globalCache, globalPromises, scopedInstances,
                   scopedPromises, resolutionOrder, tasks, invoked, nextId, trace,
                   calls, disposed, disposing, disposeLog, requests>>

\* the first disposeMany: the instance disposers are invoked
awaitInstances(k, owner, handlers) ==
    /\ disposeLog' =
          disposeLog \o instanceEvents("start", owner, k, instancesOf(owner))
    /\ disposing' =
          [j \in 1..k |->
              IF j = k
              THEN DisposeCall(owner, "instances", handlers, Len(handlers),
                               instancesOf(owner), FALSE)
              ELSE disposing[j]]

\* mutant: the disposed flag is never consulted
neverDisposed(owner) == FALSE

\* if (this.disposed) return: only a scope has the flag
isDisposed(owner) == owner \in Scopes /\ disposed[owner]

\* the dispose() call up to its first await
callDispose(owner) ==
    /\ IF isDisposed(owner)
       THEN /\ disposing' =
                  Append(disposing,
                         DisposeCall(owner, "done", <<>>, 0, <<>>, TRUE))
            /\ UNCHANGED disposeLog
       ELSE IF disposeHandlers[owner] # <<>>
       THEN /\ disposing' =
                  Append(disposing,
                         DisposeCall(owner, "hooks",
                                     sortHandlers(disposeHandlers[owner]), 1,
                                     <<>>, FALSE))
            /\ disposeLog' =
                  Append(disposeLog,
                         hookEvent("start", owner, Len(disposing) + 1,
                                   sortHandlers(disposeHandlers[owner])[1]))
       ELSE awaitInstances(Len(disposing) + 1, owner, <<>>)
    /\ UNCHANGED <<descriptors, collected, singletons, singletonPromises, singletonOrder,
                   globalCache, globalPromises, scopedInstances,
                   scopedPromises, resolutionOrder, tasks, invoked, nextId, trace,
                   calls, disposeHandlers, disposed>>

\* scope.dispose() / provider.dispose(), called directly
Dispose(owner) ==
    /\ Len(disposing) < MaxDisposals
    /\ callDispose(owner)
    /\ UNCHANGED requests

\* after `await handler.fn()`: the next hook, or the instance disposers
afterHook(k) ==
    LET c == disposing[k] IN
    /\ IF c.i < Len(c.handlers)
       THEN /\ disposeLog' =
                  disposeLog \o
                  << hookEvent("end", c.owner, k, c.handlers[c.i]),
                     hookEvent("start", c.owner, k, c.handlers[c.i + 1]) >>
            /\ disposing' = [disposing EXCEPT ![k].i = c.i + 1]
       ELSE /\ disposeLog' =
                  Append(disposeLog,
                         hookEvent("end", c.owner, k, c.handlers[c.i]))
                  \o instanceEvents("start", c.owner, k, instancesOf(c.owner))
            /\ disposing' =
                  [disposing EXCEPT ![k].stage = "instances",
                                    ![k].started = instancesOf(c.owner)]
    /\ UNCHANGED <<singletons, singletonPromises, singletonOrder,
                   scopedInstances, scopedPromises, resolutionOrder, disposed>>

\* after the first `await disposeMany(...)`: the custom disposers
afterInstances(k) ==
    LET c == disposing[k] IN
    /\ disposeLog' =
          disposeLog \o instanceEvents("end", c.owner, k, c.started)
                     \o customEvents("start", c.owner, k, customsOf(c.owner))
    /\ disposing' = [disposing EXCEPT ![k].stage = "customs",
                                      ![k].started = customsOf(c.owner)]
    /\ UNCHANGED <<singletons, singletonPromises, singletonOrder,
                   scopedInstances, scopedPromises, resolutionOrder, disposed>>

\* after the second `await disposeMany(...)`: the owner forgets everything
afterCustoms(k) ==
    LET c == disposing[k] IN
    /\ disposeLog' = disposeLog \o customEvents("end", c.owner, k, c.started)
    /\ disposing' = [disposing EXCEPT ![k].stage = "done", ![k].started = <<>>]
    /\ IF c.owner \in Scopes
       THEN /\ scopedInstances' = [scopedInstances EXCEPT ![c.owner] = EmptyMap]
            /\ scopedPromises' = [scopedPromises EXCEPT ![c.owner] = EmptyMap]
            /\ resolutionOrder' = [resolutionOrder EXCEPT ![c.owner] = <<>>]
            /\ disposed' = [disposed EXCEPT ![c.owner] = TRUE]
            /\ UNCHANGED <<singletons, singletonPromises, singletonOrder>>
       ELSE /\ singletons' = [singletons EXCEPT ![c.owner] = EmptyMap]
            /\ singletonPromises' =
                  [singletonPromises EXCEPT ![c.owner] = EmptyMap]
            /\ singletonOrder' = [singletonOrder EXCEPT ![c.owner] = <<>>]
            /\ UNCHANGED <<scopedInstances, scopedPromises, resolutionOrder,
                           disposed>>

\* a dispose() call resumes after what it awaits has completed
DisposeStep(k) ==
    /\ disposing[k].stage # "done"
    /\ CASE disposing[k].stage = "hooks" -> afterHook(k)
         [] disposing[k].stage = "instances" -> afterInstances(k)
         [] OTHER -> afterCustoms(k)
    /\ UNCHANGED <<descriptors, collected, globalCache, globalPromises, tasks, invoked,
                   nextId, trace, calls, disposeHandlers, requests>>

-----------------------------------------------------------------------------
(* withScope(work), the request middleware, withRequestScope(handler):     *)
(*     const scope = provider.createScope();                               *)
(*     try { return await work(scope); } finally { await scope.dispose(); }*)
(* The work resolves services through the scope and registers hooks on it, *)
(* then returns a value, throws, or returns a promise that rejects.        *)

Kinds == {"withScope", "middleware", "withRequestScope"}

\* how the work ends: with the value "V" or the error "E"
Outcomes ==
    { [how |-> "returns", val |-> "V"], [how |-> "throws", val |-> "E"],
      [how |-> "rejects", val |-> "E"] }

NotYet == [how |-> "none", val |-> "none"]

ScopeNames == <<"s1", "s2", "s3">>

\* provider.createScope(): the n-th new ServiceScope(this)
createScope(n) == ScopeNames[n]

Request(kind, scope) ==
    [kind |-> kind, scope |-> scope, stage |-> "work", outcome |-> NotYet,
     call |-> 0, result |-> NotYet]

\* the wrapper is called: it creates a scope and starts the work
Enter(kind) ==
    /\ Len(requests) < MaxRequests
    /\ requests' =
          Append(requests, Request(kind, createScope(Len(requests) + 1)))
    /\ UNCHANGED <<descriptors, collected, singletons, singletonPromises, singletonOrder,
                   globalCache, globalPromises, scopedInstances,
                   scopedPromises, resolutionOrder, tasks, invoked, nextId, trace,
                   calls, disposeHandlers, disposed, disposing, disposeLog>>

\* the work settles: control reaches  finally { await scope.dispose() }
WorkEnds(r, outcome) ==
    /\ requests[r].stage = "work"
    /\ requests' = [requests EXCEPT ![r].stage = "finally",
                                    ![r].outcome = outcome,
                                    ![r].call = Len(disposing) + 1]
    /\ callDispose(requests[r].scope)

\* mutant: a failure of the work is swallowed
settleSwallowed(kind, outcome) == [how |-> "fulfilled", val |-> "undefined"]

\* the completion of the try block is the completion of the wrapper: its
\* promise fulfils with what the work returned (the middleware returns
\* nothing) or rejects with what the work threw or rejected with
settle(kind, outcome) ==
    IF outcome.how = "returns"
    THEN [how |-> "fulfilled",
          val |-> IF kind = "middleware" THEN "undefined" ELSE outcome.val]
    ELSE [how |-> "rejected", val |-> outcome.val]

\* after  await scope.dispose()  the wrapper's promise settles
Return(r) ==
    /\ requests[r].stage = "finally"
    /\ disposing[requests[r].call].stage = "done"
    /\ requests' =
          [requests EXCEPT ![r].stage = "done",
                           ![r].result = settle(requests[r].kind,
                                                requests[r].outcome)]
    /\ UNCHANGED <<descriptors, collected, singletons, singletonPromises, singletonOrder,
                   globalCache, globalPromises, scopedInstances,
                   scopedPromises, resolutionOrder, tasks, invoked, nextId, trace,
                   calls, disposeHandlers, disposed, disposing, disposeLog>>

-----------------------------------------------------------------------------
(* ServiceCollection: registration and build()                             *)

\* a JavaScript boolean option that may be left out
Flags == {"undefined", "true", "false"}

\* flag ?? fallback
orElse(flag, fallback) == IF flag = "undefined" THEN fallback ELSE flag = "true"

\* new ServiceCollection({ allowOverwrite, defaultMultiple }): the Map is a
\* list of [token, list] entries in the order the tokens were first set
ServiceCollection(allowOverwrite, defaultMultiple) ==
    [allowOverwrite |-> allowOverwrite, defaultMultiple |-> defaultMultiple,
     entries |-> <<>>]

\* id: Symbol()
WithId(descriptor, id) == descriptor @@ [id |-> id]

\* this.descriptors.get(token) ?? []
existingFor(entries, token) ==
    LET hits == SelectSeq(entries, LAMBDA e : e.token = token) IN
    IF Len(hits) = 0 THEN <<>> ELSE hits[1].list

\* this.descriptors.set(token, list): a new token goes last, a known token
\* keeps its place
mapSet(entries, token, list) ==
    IF \E i \in 1..Len(entries) : entries[i].token = token
    THEN [i \in 1..Len(entries) |->
             IF entries[i].token = token
             THEN [token |-> token, list |-> list] ELSE entries[i]]
    ELSE Append(entries, [token |-> token, list |-> list])

\* mutant: a slot is a token and a key
occupiedSlot(existing, descriptor) ==
    \E i \in 1..Len(existing) : existing[i].key = descriptor.key

\* existing.length > 0
occupied(existing, descriptor) == Len(existing) > 0

\* mutant: a single registration is appended like a multiple one
pushAlways(existing, descriptor, multiple) == Append(existing, descriptor)

\* multiple: existing.push(descriptor); single: [descriptor]
pushOrSet(existing, descriptor, multiple) ==
    IF multiple THEN Append(existing, descriptor) ELSE <<descriptor>>

\* addDescriptor(token, descriptor, options): throws, or returns this
addDescriptor(collection, token, descriptor, factoryDispose, option) ==
    LET existing == existingFor(collection.entries, token)
        multiple == orElse(option, collection.defaultMultiple)
        carried == IF factoryDispose
                   THEN [descriptor EXCEPT !.customDispose = TRUE]
                   ELSE descriptor
    IN IF ~multiple /\ ~collection.allowOverwrite
          /\ occupied(existing, descriptor)
       THEN [threw |-> TRUE, collection |-> collection]
       ELSE [threw |-> FALSE,
             collection |->
                [collection EXCEPT !.entries =
                    mapSet(@, token, pushOrSet(existing, carried, multiple))]]

RECURSIVE flatMap(_)
\* [...this.descriptors.entries()].flatMap(([_, descriptors]) => descriptors)
flatMap(entries) ==
    IF entries = <<>> THEN <<>>
    ELSE entries[1].list \o flatMap(Tail(entries))

\* build(): the flat array handed to new ServiceProvider
build(collection) == flatMap(collection.entries)

\* mutant: the provider reads the collection's own Map
groupedLive(held, collection) == build(collection)

\* the provider's Map and its lists are made by its constructor: what the
\* provider holds after a registration on the collection
grouped(held, collection) == held

\* what was asked of the collection, and whether it threw
Registration(op, token, key, multiple, threw, id) ==
    [op |-> op, token |-> token, key |-> key, multiple |-> multiple,
     threw |-> threw, id |-> id]

\* the outcome of an add...() call
added(r, token, key, option) ==
    /\ services' = r.collection
    /\ descriptors' = grouped(descriptors, r.collection)
    /\ registrations' =
          Append(registrations,
                 Registration("add", token, key,
                              orElse(option, services.defaultMultiple),
                              r.threw, Len(registrations) + 1))

\* services.addSingleton(token, factory, { key, multiple })
AddSingleton(token, key, option) ==
    /\ added(addDescriptor(services, token,
                           WithId(Descriptor(token, key, Singleton, FALSE,
                                             <<>>, FALSE),
                                  Len(registrations) + 1),
                           FALSE, option),
             token, key, option)
    /\ UNCHANGED <<singletons, singletonPromises, singletonOrder, globalCache,
                   globalPromises, scopedInstances, scopedPromises,
                   resolutionOrder, tasks, invoked, nextId, trace, calls,
                   disposeHandlers, disposed, disposing, disposeLog, requests,
                   built, diagnostics>>

\* services.build(): new ServiceProvider(descriptors, { trace })
Build ==
    /\ ~built
    /\ built' = TRUE
    /\ descriptors' = build(services)
    /\ invoked' = [d \in 1..Len(build(services)) |-> [pl \in Places |-> 0]]
    /\ registrations' =
          Append(registrations,
                 Registration("build", "", NoKey, FALSE, FALSE,
                              Len(registrations) + 1))
    /\ UNCHANGED <<singletons, singletonPromises, singletonOrder, globalCache,
                   globalPromises, scopedInstances, scopedPromises,
                   resolutionOrder, tasks, nextId, trace, calls,
                   disposeHandlers, disposed, disposing, disposeLog, requests,
                   services, diagnostics>>

-----------------------------------------------------------------------------
(* validateGraph *)

\* { level, message, token, key }: the message is one of five kinds
Diagnostic(level, message, token, key) ==
    [level |-> level, message |-> message, token |-> token, key |-> key]

\* the keys of a Map filled in list order: first occurrences, in order
firstOf(list, at(_)) ==
    SelectSeq([i \in 1..Len(list) |-> i],
              LAMBDA i : \A j \in 1..(i - 1) : at(list[j]) # at(list[i]))

\* keyed.get(key): the descriptors of the token registered under the key
groupOf(list, ds, key) == SelectSeq(ds, LAMBDA d : list[d].key = key)

RECURSIVE groupDiagnostics(_, _, _, _, _)
\* for (const [key, group] of keyed.entries()) if (group.length > 1) ...
groupDiagnostics(list, token, ds, ks, i) ==
    IF i > Len(ks) THEN <<>>
    ELSE LET key == list[ds[ks[i]]].key IN
         (IF Len(groupOf(list, ds, key)) > 1
          THEN IF key = NoKey
               THEN <<Diagnostic("warning", "Multiple registrations without a key",
                                 token, key)>>
               ELSE <<Diagnostic("error", "Multiple registrations with key",
                                 token, key)>>
          ELSE <<>>)
         \o groupDiagnostics(list, token, ds, ks, i + 1)

\* mutant: the test counts the registrations without a key
manyUnkeyed(list, ds) == Len(groupOf(list, ds, NoKey)) > 1

\* descriptors.length > 1 && hasUnkeyed
manyAndUnkeyed(list, ds) == Len(ds) > 1 /\ Len(groupOf(list, ds, NoKey)) > 0

\* the body of the loop over this.descriptors.entries()
tokenDiagnostics(list, token, requireKeys) ==
    LET ds == Grouped(list, token)
        ks == firstOf(ds, LAMBDA d : list[d].key)
        hasUnkeyed == \E i \in 1..Len(ds) : list[ds[i]].key = NoKey
        hasKeyed == \E i \in 1..Len(ds) : list[ds[i]].key # NoKey
    IN groupDiagnostics(list, token, ds, ks, 1)
       \o (IF manyAndUnkeyed(list, ds)
           THEN <<Diagnostic(IF requireKeys THEN "error" ELSE "warning",
                             "has multiple registrations without keys",
                             token, NoKey)>>
           ELSE <<>>)
       \o (IF hasKeyed /\ hasUnkeyed
           THEN <<Diagnostic("warning", "mixes keyed and unkeyed", token,
                             NoKey)>>
           ELSE <<>>)

RECURSIVE registryDiagnostics(_, _, _, _)
\* for (const [token, descriptors] of this.descriptors.entries())
registryDiagnostics(list, ts, i, requireKeys) ==
    IF i > Len(ts) THEN <<>>
    ELSE tokenDiagnostics(list, list[ts[i]].token, requireKeys)
         \o registryDiagnostics(list, ts, i + 1, requireKeys)

RECURSIVE unusedDiagnostics(_, _, _)
\* for (const token of options.unusedTokens) if (!this.descriptors.has(token))
unusedDiagnostics(list, unusedTokens, i) ==
    IF i > Len(unusedTokens) THEN <<>>
    ELSE (IF Len(Grouped(list, unusedTokens[i])) = 0
          THEN <<Diagnostic("error", "Unused token", unusedTokens[i], NoKey)>>
          ELSE <<>>)
         \o unusedDiagnostics(list, unusedTokens, i + 1)

\* validateGraph(options): the list returned, or the throw on the first error
validateGraph(list, options) ==
    LET found ==
            registryDiagnostics(list, firstOf(list, LAMBDA d : d.token), 1,
                                options.requireKeysForMultiple)
            \o unusedDiagnostics(list, options.unusedTokens, 1)
    IN [options |-> options,
        threw |-> /\ options.throwOnError
                  /\ \E i \in 1..Len(found) : found[i].level = "error",
        found |-> found]

\* provider.validateGraph(options)
ValidateGraph(options) ==
    /\ built
    /\ diagnostics' = Append(diagnostics, validateGraph(descriptors, options))
    /\ UNCHANGED <<descriptors, singletons, singletonPromises, singletonOrder,
                   globalCache, globalPromises, scopedInstances,
                   scopedPromises, resolutionOrder, tasks, invoked, nextId,
                   trace, calls, disposeHandlers, disposed, disposing,
                   disposeLog, requests, services, built, registrations>>

-----------------------------------------------------------------------------
(* The registries and the specification of the lifetimes *)

InitEngine ==
    /\ singletons = [p \in Providers |-> EmptyMap]
    /\ singletonPromises = [p \in Providers |-> EmptyMap]
    /\ singletonOrder = [p \in Providers |-> <<>>]
    /\ globalCache = EmptyMap
    /\ globalPromises = EmptyMap
    /\ scopedInstances = [s \in Scopes |-> EmptyMap]
    /\ scopedPromises = [s \in Scopes |-> EmptyMap]
    /\ resolutionOrder = [s \in Scopes |-> <<>>]
    /\ tasks = <<>>
    /\ invoked = [d \in 1..Len(descriptors) |-> [pl \in Places |-> 0]]
    /\ nextId = 1
    /\ calls = <<>>
    /\ disposeHandlers = [pl \in Places |-> <<>>]
    /\ disposed = [s \in Scopes |-> FALSE]
    /\ disposing = <<>>
    /\ disposeLog = <<>>
    /\ requests = <<>>
    /\ registrations = <<>>
    /\ diagnostics = <<>>

\* new ServiceProvider(descriptors): no collection is involved, no trace
InitCaches ==
    /\ InitEngine
    /\ services = ServiceCollection(FALSE, FALSE)
    /\ built = TRUE
    /\ trace = [configured |-> FALSE, events |-> <<>>]

\* one service, of any lifetime, with a sync or async factory that may throw
OneService ==
    { <<Descriptor("A", NoKey, l, a, <<>>, f)>> :
        l \in Lifetimes, a \in BOOLEAN, f \in BOOLEAN }

\* A depends on B, a cached service
TwoServices ==
    { <<Descriptor("B", NoKey, lb, a, <<>>, FALSE),
        Descriptor("A", NoKey, la, a, <<Dep("B", NoKey, FALSE)>>, FALSE)>> :
        la \in Lifetimes, lb \in {Scoped, Singleton}, a \in BOOLEAN }

Init ==
    /\ descriptors \in OneService \cup TwoServices
    /\ InitCaches

Registered == {descriptors[d].token : d \in 1..Len(descriptors)}

\* provider.createScope(): the scopes are numbered as they are first used
Created ==
    Providers \cup {"s1"}
        \cup {s \in {"s2"} : \E c \in 1..Len(calls) : calls[c].place = "s1"}

Next ==
    \/ \E place \in Created, t \in Registered : Resolve(place, Token(t), NoKey)
    \/ \E place \in Created, t \in Registered : ResolveAsync(place, Token(t), NoKey)
    \/ \E t \in 1..Len(tasks) : TaskStep(t)

Spec == Init /\ [][Next]_vars

-----------------------------------------------------------------------------
(* Circular registrations *)

\* A's factory resolves B and B's factory resolves A, for every pair of
\* lifetimes, both factories sync or both async
Cycles ==
    { <<Descriptor("A", NoKey, la, a, <<Dep("B", NoKey, FALSE)>>, FALSE),
        Descriptor("B", NoKey, lb, a, <<Dep("A", NoKey, FALSE)>>, FALSE)>> :
        la \in Lifetimes, lb \in Lifetimes, a \in BOOLEAN }

InitCycle ==
    /\ descriptors \in Cycles
    /\ InitCaches

SpecCycle == InitCycle /\ [][Next]_vars

-----------------------------------------------------------------------------
(* Keyed registrations, optional tokens and the try variants *)

\* three registrations of one token, each with or without a key
Keyed ==
    { <<Descriptor("A", k1, Transient, FALSE, <<>>, FALSE),
        Descriptor("A", k2, Transient, FALSE, <<>>, FALSE),
        Descriptor("A", k3, Transient, FALSE, <<>>, FALSE)>> :
        k1 \in {NoKey, "k1"}, k2 \in {NoKey, "k1"}, k3 \in {NoKey, "k1"} }

\* what the factory of the one service does: nothing, throw, resolve an
\* unregistered token (required or optional), resolve its own token
Bodies ==
    { [deps |-> <<>>, fails |-> FALSE],
      [deps |-> <<>>, fails |-> TRUE],
      [deps |-> <<Dep("M", NoKey, FALSE)>>, fails |-> FALSE],
      [deps |-> <<Dep("M", NoKey, TRUE)>>, fails |-> FALSE],
      [deps |-> <<Dep("A", NoKey, FALSE)>>, fails |-> FALSE] }

Failing ==
    { <<Descriptor("A", NoKey, l, a, b.deps, b.fails)>> :
        l \in Lifetimes, a \in BOOLEAN, b \in Bodies }

InitApi ==
    /\ descriptors \in Keyed \cup Failing
    /\ InitCaches

\* the token-likes a caller passes: A is registered, M is not
TokenLikes == {Token("A"), optional("A"), Token("M"), optional("M")}

\* the keys a caller passes: none, a registered one, one never registered
CallKeys ==
    {NoKey, "k2"} \cup {descriptors[d].key : d \in 1..Len(descriptors)}

ApiPlaces == {"p1", "s1"}

\* one more top-level call may be made
MayCall == Len(calls) < MaxApiCalls

NextApi ==
    \/ \E place \in ApiPlaces, tl \in TokenLikes, k \in CallKeys :
          MayCall /\ Resolve(place, tl, k)
    \/ \E place \in ApiPlaces, tl \in TokenLikes, k \in CallKeys :
          MayCall /\ TryResolve(place, tl, k)
    \/ \E place \in ApiPlaces, tl \in TokenLikes, k \in CallKeys :
          MayCall /\ ResolveAsync(place, tl, k)
    \/ \E place \in ApiPlaces, tl \in TokenLikes, k \in CallKeys :
          MayCall /\ TryResolveAsync(place, tl, k)
    \/ \E t \in 1..Len(tasks) : TaskStep(t)

SpecApi == InitApi /\ [][NextApi]_vars

-----------------------------------------------------------------------------
(* GlobalSingleton registrations of two providers *)

\* A is registered with the global key "g"; B with the same key, or with
\* none (its key is then its token); both factories sync or both async
Globals ==
    { << WithGlobalKey(Descriptor("A", NoKey, GlobalSingleton, a, <<>>, FALSE),
                       "g"),
         WithGlobalKey(Descriptor("B", NoKey, GlobalSingleton, a, <<>>, FALSE),
                       gb) >> :
        a \in BOOLEAN, gb \in {"g", NoKey} }

InitGlobal ==
    /\ descriptors \in Globals
    /\ InitCaches

SpecGlobal == InitGlobal /\ [][Next]_vars

\* A's factory resolves B; A is registered with the global key "g" and B with
\* the same key, or with none; both factories sync or both async
NestedGlobals ==
    { << WithGlobalKey(Descriptor("A", NoKey, GlobalSingleton, a,
                                  <<Dep("B", NoKey, FALSE)>>, FALSE), "g"),
         WithGlobalKey(Descriptor("B", NoKey, GlobalSingleton, a, <<>>, FALSE),
                       gb) >> :
        a \in BOOLEAN, gb \in {"g", NoKey} }

InitNested ==
    /\ descriptors \in NestedGlobals
    /\ InitCaches

SpecNested == InitNested /\ [][Next]_vars

\* two GlobalSingleton registrations without options.globalKey: under two
\* string tokens, under two symbols of one description, under one token
\* with two keys, under a token and key that spell another token
Labelled ==
    { << Descriptor(x[1], x[2], GlobalSingleton, a, <<>>, FALSE),
         Descriptor(y[1], y[2], GlobalSingleton, a, <<>>, FALSE) >> :
        x \in {<<"A", NoKey>>, <<"S#1", NoKey>>, <<"A", "a">>},
        y \in {<<"B", NoKey>>, <<"S#2", NoKey>>, <<"A", "b">>,
               <<"A:a", NoKey>>},
        a \in BOOLEAN }

InitLabelled ==
    /\ descriptors \in Labelled
    /\ InitCaches

NextLabelled ==
    \/ \E place \in Created, d \in 1..Len(descriptors) :
          Resolve(place, Token(descriptors[d].token), descriptors[d].key)
    \/ \E place \in Created, d \in 1..Len(descriptors) :
          ResolveAsync(place, Token(descriptors[d].token), descriptors[d].key)
    \/ \E t \in 1..Len(tasks) : TaskStep(t)

SpecLabelled == InitLabelled /\ [][NextLabelled]_vars

\* A's factory resolves B, whose factory throws (sync) or rejects (async),
\* for every pair of lifetimes
Thrown ==
    { <<Descriptor("B", NoKey, lb, a, <<>>, TRUE),
        Descriptor("A", NoKey, la, a, <<Dep("B", NoKey, FALSE)>>, FALSE)>> :
        la \in Lifetimes, lb \in Lifetimes, a \in BOOLEAN }

InitThrown ==
    /\ descriptors \in Thrown
    /\ InitCaches

SpecThrown == InitThrown /\ [][Next]_vars

\* A's factory calls resolver.resolveAll("B"); B is registered twice, with
\* the key "a" and without a key
Collected ==
    { <<Descriptor("B", "a", l1, FALSE, <<>>, FALSE),
        Descriptor("B", NoKey, l2, FALSE, <<>>, FALSE),
        Descriptor("A", NoKey, la, a, <<DepAll("B")>>, FALSE)>> :
        l1 \in {Scoped, Singleton}, l2 \in {Scoped, Singleton},
        la \in Lifetimes, a \in BOOLEAN }

InitCollected ==
    /\ descriptors \in Collected
    /\ InitCaches

SpecCollected == InitCollected /\ [][Next]_vars

-----------------------------------------------------------------------------
(* Disposable services, dispose hooks and dispose() *)

DisposePriorities == {1, 5}
HookPriorities == {0, 1}

\* all Scoped, all Singleton
UniformPatterns ==
    { <<Scoped, Scoped, Scoped>>, <<Singleton, Singleton, Singleton>> }

\* a Scoped service over a Singleton over a GlobalSingleton, a
\* GlobalSingleton over two Singletons
MixedPatterns ==
    { <<Scoped, Singleton, GlobalSingleton>>,
      <<GlobalSingleton, Singleton, Singleton>> }

\* A resolves B and B resolves C (materialized in the order C, B, A)
Chain == [a |-> <<Dep("B", NoKey, FALSE)>>, b |-> <<Dep("C", NoKey, FALSE)>>]

\* A resolves B and then C (materialized in the order B, C, A)
Fan == [a |-> <<Dep("B", NoKey, FALSE), Dep("C", NoKey, FALSE)>>, b |-> <<>>]

\* three disposable services; B is registered with a custom disposer
Three(l, shape, pa, pb) ==
    << WithDisposal(Descriptor("A", NoKey, l[1], FALSE, shape.a, FALSE),
                    pa, FALSE),
       WithDisposal(Descriptor("B", NoKey, l[2], FALSE, shape.b, FALSE),
                    pb, TRUE),
       WithDisposal(Descriptor("C", NoKey, l[3], FALSE, <<>>, FALSE),
                    1, FALSE) >>

Disposables ==
    { Three(l, shape, pa, pb) :
        l \in UniformPatterns, shape \in {Chain, Fan},
        pa \in DisposePriorities, pb \in DisposePriorities }
    \cup { Three(l, Chain, 1, 5) : l \in MixedPatterns }

InitDispose ==
    /\ descriptors \in Disposables
    /\ InitCaches

\* the providers and scopes that calls are made on, and those disposed
DisposePlaces == {"p1", "p2", "s1", "s2"}
Owners == {"p1", "s1"}

\* the calls, hooks and dispose() calls made so far
Operations ==
    Len(calls) + Len(disposing)
        + Len(disposeHandlers["p1"]) + Len(disposeHandlers["s1"])

MayOperate == Operations < MaxOperations

\* hooks are registered on, and dispose() is called on, one owner per
\* behaviour, and a dispose() call is awaited before the next one is made
Idle == \A k \in 1..Len(disposing) : disposing[k].stage = "done"

Chosen ==
    {o \in Owners : disposeHandlers[o] # <<>>}
        \cup {disposing[k].owner : k \in 1..Len(disposing)}

NextDispose ==
    \/ \E place \in DisposePlaces :
          MayOperate /\ Resolve(place, Token("A"), NoKey)
    \/ \E owner \in Owners, priority \in HookPriorities :
          MayOperate /\ Chosen \subseteq {owner} /\ OnDispose(owner, priority)
    \/ \E owner \in Owners :
          MayOperate /\ Idle /\ Chosen \subseteq {owner} /\ Dispose(owner)
    \/ \E k \in 1..Len(disposing) : DisposeStep(k)

SpecDispose == InitDispose /\ [][NextDispose]_vars

\* dispose() is called on the scope without its caller awaiting the call
\* made before: the calls overlap; the services are resolved and the hooks
\* registered before the first dispose()
NextOverlap ==
    \/ MayOperate /\ disposing = <<>> /\ Resolve("s1", Token("A"), NoKey)
    \/ \E priority \in HookPriorities :
          MayOperate /\ disposing = <<>> /\ OnDispose("s1", priority)
    \/ MayOperate /\ Dispose("s1")
    \/ \E k \in 1..Len(disposing) : DisposeStep(k)

SpecOverlap == InitDispose /\ [][NextOverlap]_vars

-----------------------------------------------------------------------------
(* Requests: the work of each invocation uses the scope it was handed *)

Requested ==
    { Three(l, Chain, 1, 5) :
        l \in { <<Scoped, Scoped, Scoped>>,
                <<Scoped, Singleton, GlobalSingleton>> } }

InitRequest ==
    /\ descriptors \in Requested
    /\ InitCaches

\* the invocations, calls and hooks made so far
RequestOperations ==
    Len(requests) + Len(calls) + Len(disposeHandlers["s1"])
        + Len(disposeHandlers["s2"]) + Len(disposeHandlers["s3"])

MayRequest == RequestOperations < MaxOperations

\* an invocation is made after the one before it has settled
AllReturned == \A r \in 1..Len(requests) : requests[r].stage = "done"

\* the invocations whose work is running
Working == {r \in 1..Len(requests) : requests[r].stage = "work"}

NextRequest ==
    \/ \E kind \in Kinds : MayRequest /\ AllReturned /\ Enter(kind)
    \/ \E r \in Working :
          MayRequest /\ Resolve(requests[r].scope, Token("A"), NoKey)
    \/ \E r \in Working, priority \in HookPriorities :
          MayRequest /\ OnDispose(requests[r].scope, priority)
    \/ \E r \in Working, outcome \in Outcomes : WorkEnds(r, outcome)
    \/ \E k \in 1..Len(disposing) : DisposeStep(k)
    \/ \E r \in 1..Len(requests) : Return(r)

SpecRequest == InitRequest /\ [][NextRequest]_vars

-----------------------------------------------------------------------------
(* Several registrations of one token: resolveAll and resolveMap *)

\* the keys of the three registrations: distinct, one missing, one repeated,
\* one that names a property of Object.prototype, none
KeyPatterns ==
    { <<"a", "b", "c">>, <<"a", NoKey, "b">>, <<"a", "b", "a">>,
      <<"a", "constructor", "b">>, <<NoKey, NoKey, NoKey>> }

ManyLifetimes ==
    { <<Transient, Transient, Transient>>, <<Singleton, Transient, Singleton>>,
      <<Scoped, Singleton, Transient>> }

\* three registrations of A; the factory of the second may throw
Many ==
    { << Descriptor("A", k[1], l[1], FALSE, <<>>, FALSE),
         Descriptor("A", k[2], l[2], FALSE, <<>>, f),
         Descriptor("A", k[3], l[3], FALSE, <<>>, FALSE) >> :
        k \in KeyPatterns, l \in ManyLifetimes, f \in BOOLEAN }

InitMany ==
    /\ descriptors \in Many
    /\ InitCaches

\* A is registered, M is not
ManyTokens == {"A", "M"}

NextMany ==
    \/ \E place \in ApiPlaces, k \in {NoKey, "a"} :
          Resolve(place, Token("A"), k)
    \/ \E place \in ApiPlaces, t \in ManyTokens : ResolveAll(place, t)
    \/ \E t \in ManyTokens : ResolveMap("p1", t)

SpecMany == InitMany /\ [][NextMany]_vars

-----------------------------------------------------------------------------
(* SpecCollection: registrations on a collection, build(), calls on the    *)
(* provider built, validateGraph()                                         *)

\* add...() calls per behaviour of SpecCollection
MaxRegistrations == 3
\* add...(), build(), resolve() and validateGraph() calls per behaviour
MaxCollecting == 5

InitCollection ==
    /\ descriptors = <<>>
    /\ InitEngine
    /\ services \in {ServiceCollection(o, m) : o \in BOOLEAN, m \in BOOLEAN}
    /\ built = FALSE
    /\ trace = [configured |-> FALSE, events |-> <<>>]

\* what is registered: token, key, the multiple option
Registrable ==
    ({"A"} \X {NoKey, "a"} \X Flags) \cup {<<"B", NoKey, "undefined">>}

\* { throwOnError, requireKeysForMultiple, unusedTokens }; C is never
\* registered
ValidateOptions ==
    [throwOnError : BOOLEAN, requireKeysForMultiple : BOOLEAN,
     unusedTokens : {<<>>, <<"A", "C">>}]

Adds == SelectSeq(registrations, LAMBDA r : r.op = "add")

MayCollect ==
    Len(registrations) + Len(calls) + Len(diagnostics) < MaxCollecting

\* resolve() and validateGraph() calls on the provider built
MayAsk == Len(calls) + Len(diagnostics) < MaxApiCalls

NextCollection ==
    \/ \E r \in Registrable :
          /\ MayCollect
          /\ Len(Adds) < MaxRegistrations
          /\ AddSingleton(r[1], r[2], r[3])
    \/ MayCollect /\ Build
    \/ \E t \in {"A", "B"}, k \in {NoKey, "a"} :
          built /\ MayCollect /\ MayAsk /\ Resolve("p1", Token(t), k)
    \/ \E options \in ValidateOptions :
          MayCollect /\ MayAsk /\ ValidateGraph(options)

SpecCollection == InitCollection /\ [][NextCollection]_vars

-----------------------------------------------------------------------------
(* SpecTrace: a chain of three services, C resolves A resolves B, on a     *)
(* provider made with options.trace                                        *)

Traced ==
    { <<Descriptor("B", kb, lb, a, <<>>, FALSE),
        Descriptor("A", NoKey, la, a, <<Dep("B", NoKey, FALSE)>>, FALSE),
        Descriptor("C", NoKey, Transient, a, <<Dep("A", NoKey, FALSE)>>,
                   FALSE)>> :
        la \in Lifetimes, lb \in {Scoped, Singleton}, a \in BOOLEAN,
        kb \in {NoKey, "b"} }

InitTrace ==
    /\ descriptors \in Traced
    /\ InitEngine
    /\ services = ServiceCollection(FALSE, FALSE)
    /\ built = TRUE
    /\ trace = [configured |-> TRUE, events |-> <<>>]

TracePlaces == {"p1", "s1"}

NextTrace ==
    \/ \E place \in TracePlaces, t \in {"A", "C"} :
          Resolve(place, Token(t), NoKey)
    \/ \E place \in TracePlaces, t \in {"A", "C"} :
          ResolveAsync(place, Token(t), NoKey)
    \/ \E t \in 1..Len(tasks) : TaskStep(t)

SpecTrace == InitTrace /\ [][NextTrace]_vars

-----------------------------------------------------------------------------
(* SpecLive: A and B resolve each other after a first await, concurrent    *)
(* resolveAsync() calls, every task that can run does run                  *)

\* async (r) => { await r.resolveAsync(X); await r.resolveAsync(other) }
Live ==
    { <<Descriptor("X", NoKey, Transient, TRUE, <<>>, FALSE),
        Descriptor("A", NoKey, l, TRUE,
                   <<Dep("X", NoKey, FALSE), Dep("B", NoKey, FALSE)>>, FALSE),
        Descriptor("B", NoKey, l, TRUE,
                   <<Dep("X", NoKey, FALSE), Dep("A", NoKey, FALSE)>>, FALSE)>> :
        l \in {Singleton, GlobalSingleton, Scoped} }

InitLive ==
    /\ descriptors \in Live
    /\ InitCaches

NextLive ==
    \/ \E t \in {"A", "B"} : ResolveAsync("s1", Token(t), NoKey)
    \/ \E t \in 1..Len(tasks) : TaskStep(t)

\* the event loop runs every continuation whose awaited promise has settled
SpecLive ==
    /\ InitLive
    /\ [][NextLive]_vars
    /\ WF_vars(\E t \in 1..Len(tasks) : TaskStep(t))

-----------------------------------------------------------------------------
(* Reading the call log *)

Descs == 1..Len(descriptors)

\* the descriptor a call selects, 0 when none
Picked(call) ==
    pickDescriptor(descriptors, unwrapToken(call.tokenLike).token, call.key)

IsSync(call) == call.api \in {"resolve", "tryResolve"}

Succeeded(call) == call.status = "done" /\ call.inner.kind = "ok"

PlacesOf(p) == {pl \in Places : ProviderOf(pl) = p}

RECURSIVE SumOver(_, _)
SumOver(f, S) ==
    IF S = {} THEN 0
    ELSE LET x == CHOOSE y \in S : TRUE IN f[x] + SumOver(f, S \ {x})

\* how often the factory of d has run at the given places
InvokedAt(inv, d, places) == SumOver(inv[d], places)

Values(m) == {m[k] : k \in DOMAIN m}

\* every value some cache tier holds
CachedValues(sing, glob, scoped) ==
    UNION {Values(sing[p]) : p \in Providers}
        \cup Values(glob)
        \cup UNION {Values(scoped[s]) : s \in Scopes}

\* the call this step appends to the log
NewCall == calls'[Len(calls')]
IsCallStep == Len(calls') = Len(calls) + 1

-----------------------------------------------------------------------------
(* C1 *)

\* C1 as stated: the factory of a Singleton runs at most once per provider
\* and all successful calls return the same reference.
C1_Original ==
    \A p \in Providers, d \in Descs :
        descriptors[d].lifetime = Singleton =>
            /\ InvokedAt(invoked, d, PlacesOf(p)) <= 1
            /\ \A c1, c2 \in 1..Len(calls) :
                  ( /\ Succeeded(calls[c1]) /\ Succeeded(calls[c2])
                    /\ Picked(calls[c1]) = d /\ Picked(calls[c2]) = d
                    /\ ProviderOf(calls[c1].place) = p
                    /\ ProviderOf(calls[c2].place) = p )
                  => calls[c1].inner.val = calls[c2].inner.val

\* C1 (amended): for a Singleton descriptor, all successful calls on one
\* provider, from its root or its scopes, return the same reference, and
\* once the provider holds the value or has its materialization in flight
\* no step invokes the factory again.  Calls that fail before anything is
\* cached may each invoke the factory.
C1_SingletonShared ==
    [][\A p \in Providers, d \in Descs :
        descriptors[d].lifetime = Singleton =>
            /\ ( existingSingleton(St, p, d) # Undefined
                 \/ inflightSingleton(St, p, d) # Undefined )
               => InvokedAt(invoked', d, PlacesOf(p))
                    = InvokedAt(invoked, d, PlacesOf(p))
            /\ \A c1, c2 \in 1..Len(calls') :
                  ( /\ Succeeded(calls'[c1]) /\ Succeeded(calls'[c2])
                    /\ Picked(calls'[c1]) = d /\ Picked(calls'[c2]) = d
                    /\ ProviderOf(calls'[c1].place) = p
                    /\ ProviderOf(calls'[c2].place) = p )
                  => calls'[c1].inner.val = calls'[c2].inner.val
      ]_vars

\* two successful calls for one Singleton on one provider, one from the
\* root and one from a scope, after a single factory invocation
C1_Witness ==
    \E c1, c2 \in 1..Len(calls) :
        /\ c1 # c2
        /\ Succeeded(calls[c1]) /\ Succeeded(calls[c2])
        /\ Picked(calls[c1]) # 0
        /\ Picked(calls[c1]) = Picked(calls[c2])
        /\ descriptors[Picked(calls[c1])].lifetime = Singleton
        /\ calls[c1].place = "p1" /\ calls[c2].place = "s1"
        /\ calls[c1].inner.val = calls[c2].inner.val
        /\ InvokedAt(invoked, Picked(calls[c1]), PlacesOf("p1")) = 1

-----------------------------------------------------------------------------
(* The cache slot of a descriptor at a place *)

\* the value the slot of d holds for calls made at place, Undefined if none
CachedIn(sing, glob, scoped, d, place) ==
    CASE descriptors[d].lifetime = Singleton ->
           MapGet(sing[ProviderOf(place)], d)
      [] descriptors[d].lifetime = GlobalSingleton ->
           MapGet(glob, globalKeyFor(descriptors[d]))
      [] descriptors[d].lifetime = Scoped /\ place \in Scopes ->
           MapGet(scoped[place], d)
      [] OTHER -> Undefined

\* the in-flight materialization of the slot of d at place, Undefined if none
PendingIn(singP, globP, scopedP, d, place) ==
    CASE descriptors[d].lifetime = Singleton ->
           MapGet(singP[ProviderOf(place)], d)
      [] descriptors[d].lifetime = GlobalSingleton ->
           MapGet(globP, globalKeyFor(descriptors[d]))
      [] descriptors[d].lifetime = Scoped /\ place \in Scopes ->
           MapGet(scopedP[place], d)
      [] OTHER -> Undefined

Cached(d, place) == CachedIn(singletons, globalCache, scopedInstances, d, place)
CachedNext(d, place) ==
    CachedIn(singletons', globalCache', scopedInstances', d, place)
Pending(d, place) ==
    PendingIn(singletonPromises, globalPromises, scopedPromises, d, place)
PendingNext(d, place) ==
    PendingIn(singletonPromises', globalPromises', scopedPromises', d, place)

\* the calls that share the slot of d with a call made at place
SameSlot(d, place1, place2) ==
    CASE descriptors[d].lifetime = Singleton ->
           ProviderOf(place1) = ProviderOf(place2)
      [] descriptors[d].lifetime = GlobalSingleton -> TRUE
      [] descriptors[d].lifetime = Scoped ->
           place1 \in Scopes /\ place1 = place2
      [] OTHER -> FALSE

-----------------------------------------------------------------------------
(* C2 *)

\* C2 as stated: through one scope the factory of a Scoped descriptor runs
\* at most once and all successful calls return the same reference; two
\* scopes hold distinct instances.
C2_Original ==
    \A d \in Descs :
        descriptors[d].lifetime = Scoped =>
            /\ \A s \in Scopes : invoked[d][s] <= 1
            /\ \A c1, c2 \in 1..Len(calls) :
                  ( /\ Succeeded(calls[c1]) /\ Succeeded(calls[c2])
                    /\ Picked(calls[c1]) = d /\ Picked(calls[c2]) = d
                    /\ calls[c1].place = calls[c2].place )
                  => calls[c1].inner.val = calls[c2].inner.val
            /\ \A s, t \in Scopes :
                  ( /\ s # t
                    /\ getCached(St, s, d) # Undefined
                    /\ getCached(St, t, d) # Undefined )
                  => getCached(St, s, d) # getCached(St, t, d)

\* C2 (amended): for a Scoped descriptor, all successful calls through one
\* scope return the same reference; once the scope holds the instance or
\* has its materialization in flight no step invokes the factory in that
\* scope again; a call through a scope that holds nothing for the
\* descriptor invokes the factory in that scope, whatever other scopes
\* hold; and the instances two scopes hold are distinct, each from an
\* invocation of its own.  Calls that fail before anything is cached may
\* each invoke the factory.
C2_ScopedPerScope ==
    [][\A d \in Descs :
        descriptors[d].lifetime = Scoped =>
            /\ \A s \in Scopes :
                  ( getCached(St, s, d) # Undefined
                    \/ getPending(St, s, d) # Undefined )
                  => invoked'[d][s] = invoked[d][s]
            /\ ( /\ IsCallStep
                 /\ Picked(NewCall) = d
                 /\ NewCall.place \in Scopes
                 /\ Cached(d, NewCall.place) = Undefined
                 /\ Pending(d, NewCall.place) = Undefined )
               => invoked'[d][NewCall.place] = invoked[d][NewCall.place] + 1
            /\ \A c1, c2 \in 1..Len(calls') :
                  ( /\ Succeeded(calls'[c1]) /\ Succeeded(calls'[c2])
                    /\ Picked(calls'[c1]) = d /\ Picked(calls'[c2]) = d
                    /\ calls'[c1].place = calls'[c2].place )
                  => calls'[c1].inner.val = calls'[c2].inner.val
            /\ \A s, t \in Scopes :
                  ( /\ s # t
                    /\ CachedNext(d, s) # Undefined
                    /\ CachedNext(d, t) # Undefined )
                  => /\ CachedNext(d, s) # CachedNext(d, t)
                     /\ invoked'[d][s] >= 1
                     /\ invoked'[d][t] >= 1
      ]_vars

\* one Scoped descriptor resolved successfully through two scopes: each
\* scope ran the factory once and holds its own instance
C2_Witness ==
    \E c1, c2 \in 1..Len(calls) :
        /\ Succeeded(calls[c1]) /\ Succeeded(calls[c2])
        /\ Picked(calls[c1]) # 0
        /\ Picked(calls[c1]) = Picked(calls[c2])
        /\ descriptors[Picked(calls[c1])].lifetime = Scoped
        /\ calls[c1].place = "s1" /\ calls[c2].place = "s2"
        /\ calls[c1].inner.val # calls[c2].inner.val
        /\ getCached(St, "s1", Picked(calls[c1])) = calls[c1].inner.val
        /\ getCached(St, "s2", Picked(calls[c1])) = calls[c2].inner.val
        /\ invoked[Picked(calls[c1])]["s1"] = 1
        /\ invoked[Picked(calls[c1])]["s2"] = 1

-----------------------------------------------------------------------------
(* C3 *)

\* C3: every resolve()/resolveAsync() call that selects a Transient
\* descriptor invokes its factory exactly once; the value a successful
\* call returns is held by no cache tier (provider, scope, process-global)
\* and differs from the value of every other call for the descriptor.
C3_TransientFresh ==
    [][\A d \in Descs :
        descriptors[d].lifetime = Transient =>
            /\ IF IsCallStep /\ Picked(NewCall) = d
               THEN InvokedAt(invoked', d, Places)
                        = InvokedAt(invoked, d, Places) + 1
               ELSE InvokedAt(invoked', d, Places)
                        = InvokedAt(invoked, d, Places)
            /\ \A c \in 1..Len(calls') :
                  (Succeeded(calls'[c]) /\ Picked(calls'[c]) = d)
                  => calls'[c].inner.val \notin
                        CachedValues(singletons', globalCache',
                                     scopedInstances')
            /\ \A c1, c2 \in 1..Len(calls') :
                  ( /\ c1 # c2
                    /\ Succeeded(calls'[c1]) /\ Succeeded(calls'[c2])
                    /\ Picked(calls'[c1]) = d /\ Picked(calls'[c2]) = d )
                  => calls'[c1].inner.val # calls'[c2].inner.val
      ]_vars

\* two successful calls for one Transient descriptor at one place: two
\* factory invocations, two instances, nothing cached
C3_Witness ==
    \E c1, c2 \in 1..Len(calls) :
        /\ c1 # c2
        /\ Succeeded(calls[c1]) /\ Succeeded(calls[c2])
        /\ Picked(calls[c1]) # 0
        /\ Picked(calls[c1]) = Picked(calls[c2])
        /\ descriptors[Picked(calls[c1])].lifetime = Transient
        /\ calls[c1].place = calls[c2].place
        /\ calls[c1].inner.val # calls[c2].inner.val
        /\ InvokedAt(invoked, Picked(calls[c1]), Places) = 2
        /\ calls[c1].inner.val \notin
              CachedValues(singletons, globalCache, scopedInstances)

-----------------------------------------------------------------------------
(* C4 *)

\* C4: a resolveAsync() call for a Singleton, GlobalSingleton or Scoped
\* descriptor with an async factory, issued while an earlier resolveAsync()
\* call for the same slot (provider, process, scope) has not settled, does
\* not invoke the factory and awaits the promise of the earlier call; the
\* first such call invokes the factory exactly once; calls that await the
\* same promise settle alike, so when one fulfils all fulfil with the same
\* value.
C4_InflightShared ==
    [][ /\ \A d \in Descs :
            ( /\ IsCallStep
              /\ NewCall.api = "resolveAsync"
              /\ Picked(NewCall) = d
              /\ descriptors[d].isAsync
              /\ descriptors[d].lifetime # Transient
              /\ SameSlot(d, NewCall.place, NewCall.place) )
            => IF \E c \in 1..Len(calls) :
                     /\ calls[c].api = "resolveAsync"
                     /\ calls[c].status = "pending"
                     /\ Picked(calls[c]) = d
                     /\ SameSlot(d, calls[c].place, NewCall.place)
               THEN /\ InvokedAt(invoked', d, Places)
                          = InvokedAt(invoked, d, Places)
                    /\ \A c \in 1..Len(calls) :
                          ( /\ calls[c].api = "resolveAsync"
                            /\ calls[c].status = "pending"
                            /\ Picked(calls[c]) = d
                            /\ SameSlot(d, calls[c].place, NewCall.place) )
                          => NewCall.wait = calls[c].wait
               ELSE ( Cached(d, NewCall.place) = Undefined
                      /\ Pending(d, NewCall.place) = Undefined )
                    => InvokedAt(invoked', d, Places)
                          = InvokedAt(invoked, d, Places) + 1
        /\ \A c1, c2 \in 1..Len(calls') :
              ( /\ calls'[c1].wait.kind = "promise"
                /\ calls'[c1].wait = calls'[c2].wait )
              => /\ calls'[c1].status = calls'[c2].status
                 /\ calls'[c1].inner = calls'[c2].inner
      ]_vars

\* two resolveAsync() calls shared one in-flight materialization of an
\* async factory: one invocation, both fulfilled with the same value
C4_Witness ==
    \E c1, c2 \in 1..Len(calls) :
        /\ c1 # c2
        /\ calls[c1].api = "resolveAsync" /\ calls[c2].api = "resolveAsync"
        /\ Picked(calls[c1]) # 0
        /\ Picked(calls[c1]) = Picked(calls[c2])
        /\ descriptors[Picked(calls[c1])].isAsync
        /\ descriptors[Picked(calls[c1])].lifetime = Singleton
        /\ calls[c1].wait.kind = "promise"
        /\ calls[c1].wait = calls[c2].wait
        /\ Succeeded(calls[c1]) /\ Succeeded(calls[c2])
        /\ calls[c1].inner.val = calls[c2].inner.val
        /\ InvokedAt(invoked, Picked(calls[c1]), Places) = 1

-----------------------------------------------------------------------------
(* C5 *)

\* C5: a synchronous resolve() that selects a descriptor with an async
\* factory (through a scope when the descriptor is Scoped) returns the
\* cached value when the slot of the descriptor holds one, and otherwise
\* raises AsyncFactoryError, whether or not a materialization is in flight,
\* and leaves the slot without a value and its in-flight entry as it was.
C5_SyncOfAsync ==
    [][\A d \in Descs :
        ( /\ IsCallStep
          /\ NewCall.api = "resolve"
          /\ Picked(NewCall) = d
          /\ descriptors[d].isAsync
          /\ descriptors[d].lifetime = Scoped => NewCall.place \in Scopes )
        => /\ NewCall.status = "done"
           /\ IF Cached(d, NewCall.place) # Undefined
              THEN NewCall.res = Ok(Cached(d, NewCall.place))
              ELSE /\ NewCall.res.kind = "AsyncFactoryError"
                   /\ CachedNext(d, NewCall.place) = Undefined
                   /\ PendingNext(d, NewCall.place) = Pending(d, NewCall.place)
      ]_vars

\* a synchronous resolve() met an in-flight async materialization and
\* raised AsyncFactoryError
C5_Witness ==
    \E c1, c2 \in 1..Len(calls) :
        /\ c1 < c2
        /\ calls[c1].api = "resolveAsync" /\ calls[c1].status = "pending"
        /\ calls[c2].api = "resolve"
        /\ Picked(calls[c1]) # 0
        /\ Picked(calls[c1]) = Picked(calls[c2])
        /\ descriptors[Picked(calls[c1])].isAsync
        /\ Pending(Picked(calls[c1]), calls[c2].place) # Undefined
        /\ calls[c2].res.kind = "AsyncFactoryError"
        /\ Cached(Picked(calls[c1]), calls[c2].place) = Undefined

-----------------------------------------------------------------------------
(* C7 *)

\* C7: a call at the root provider that selects a Scoped descriptor ends
\* with ScopeResolutionError (thrown by resolve(), the rejection of
\* resolveAsync()); the step invokes no factory, starts no materialization
\* and changes no cache.  No Scoped factory ever runs at a root provider.
C7_ScopedFromRoot ==
    [][ /\ \A d \in Descs :
            ( /\ IsCallStep
              /\ NewCall.place \in Providers
              /\ Picked(NewCall) = d
              /\ descriptors[d].lifetime = Scoped )
            => /\ NewCall.status = "done"
               /\ NewCall.res.kind = "ScopeResolutionError"
               /\ NewCall.res.token = descriptors[d].token
               /\ invoked' = invoked
               /\ tasks' = tasks
               /\ nextId' = nextId
               /\ singletons' = singletons
               /\ singletonPromises' = singletonPromises
               /\ globalCache' = globalCache
               /\ globalPromises' = globalPromises
               /\ scopedInstances' = scopedInstances
               /\ scopedPromises' = scopedPromises
        /\ \A d \in Descs, p \in Providers :
              descriptors[d].lifetime = Scoped => invoked'[d][p] = 0
      ]_vars

\* resolve() and resolveAsync() at the root selected a Scoped descriptor
\* and both ended with ScopeResolutionError, nothing invoked or cached
C7_Witness ==
    \E c1, c2 \in 1..Len(calls) :
        /\ calls[c1].api = "resolve" /\ calls[c2].api = "resolveAsync"
        /\ calls[c1].place = "p1" /\ calls[c2].place = "p1"
        /\ Picked(calls[c1]) # 0
        /\ Picked(calls[c1]) = Picked(calls[c2])
        /\ descriptors[Picked(calls[c1])].lifetime = Scoped
        /\ calls[c1].res.kind = "ScopeResolutionError"
        /\ calls[c2].status = "done"
        /\ calls[c2].res.kind = "ScopeResolutionError"
        /\ InvokedAt(invoked, Picked(calls[c1]), Places) = 0
        /\ CachedValues(singletons, globalCache, scopedInstances) = {}

-----------------------------------------------------------------------------
(* C6 *)

\* some registered descriptor is Scoped
HasScoped == \E d \in Descs : descriptors[d].lifetime = Scoped

\* C6 as stated: with A's factory resolving B and B's factory resolving A,
\* no resolution (made through a scope when a Scoped descriptor is
\* involved, in the mode the factories are written for) recurses without
\* bound, and the first one ends with CircularDependencyError.
C6_CycleDetected ==
    \A c \in 1..Len(calls) :
        ( /\ calls[c].status = "done"
          /\ HasScoped => calls[c].place \in Scopes
          /\ IsSync(calls[c]) => ~descriptors[Picked(calls[c])].isAsync )
        => /\ calls[c].inner.kind # "RangeError"
           /\ c = 1 => calls[c].inner.kind = "CircularDependencyError"

-----------------------------------------------------------------------------
(* C8 *)

\* the descriptors a call may select: those of the token, with the key of
\* the call when it gives one
Candidates(tokenLike, key) ==
    {d \in Descs :
        /\ descriptors[d].token = unwrapToken(tokenLike).token
        /\ key # NoKey => descriptors[d].key = key}

Last(S) == CHOOSE d \in S : \A e \in S : e <= d

\* the descriptors whose factory this step has run
Ran == {d \in Descs : invoked'[d] # invoked[d]}

\* C8: a call without a key runs the factory of the last-registered
\* descriptor of the token, keyed or not; a call with a key runs the
\* factory of a descriptor of the token with that key and of no other;
\* when the token has no such descriptor no factory runs and, unless the
\* token is optional, the call raises MissingServiceError carrying the
\* token and the key.  (Registries whose factories resolve no other
\* registered token; a Transient descriptor runs its factory per call.)
C8_Pick ==
    [][IsCallStep =>
        LET cands == Candidates(NewCall.tokenLike, NewCall.key)
            u == unwrapToken(NewCall.tokenLike)
        IN IF cands = {}
           THEN /\ invoked' = invoked
                /\ NewCall.status = "done"
                /\ NewCall.inner =
                      IF u.optional THEN Ok(Undefined)
                      ELSE Err("MissingServiceError", u.token, NewCall.key,
                               <<>>)
           ELSE /\ Ran \subseteq cands
                /\ NewCall.key = NoKey => Ran \subseteq {Last(cands)}
                /\ (\A d \in cands : descriptors[d].lifetime = Transient)
                   => Cardinality(Ran) = 1
                /\ ~ ( /\ NewCall.inner.kind = "MissingServiceError"
                       /\ NewCall.inner.token = u.token )
      ]_vars

\* resolve(A) without a key, A registered three times, first without and
\* last with a key: the factory of the last registration ran
C8_Witness ==
    /\ Len(descriptors) = 3
    /\ descriptors[1].key = NoKey
    /\ descriptors[3].key = "k1"
    /\ \E c \in 1..Len(calls) :
          /\ calls[c].api = "resolve"
          /\ calls[c].tokenLike = Token("A")
          /\ calls[c].key = NoKey
          /\ Succeeded(calls[c])
    /\ InvokedAt(invoked, 3, Places) = 1
    /\ InvokedAt(invoked, 1, Places) = 0
    /\ InvokedAt(invoked, 2, Places) = 0

-----------------------------------------------------------------------------
(* C9 *)

\* C9: tryResolve()/tryResolveAsync() never raise: they do what
\* resolve()/resolveAsync() does from the same state and return undefined
\* when that fails, for whatever reason, and its value otherwise.
C9_TryNeverRaises ==
    [][ /\ ( IsCallStep /\ NewCall.api \in {"tryResolve", "tryResolveAsync"} )
           => /\ NewCall.wait =
                    resolveInternal(St, ProviderOf(NewCall.place),
                                    ScopeOf(NewCall.place), NewCall.tokenLike,
                                    NewCall.key, <<>>,
                                    NewCall.api = "tryResolveAsync", 1).res
              /\ tasks' =
                    resolveInternal(St, ProviderOf(NewCall.place),
                                    ScopeOf(NewCall.place), NewCall.tokenLike,
                                    NewCall.key, <<>>,
                                    NewCall.api = "tryResolveAsync", 1).st.tasks
        /\ \A c \in 1..Len(calls') :
              ( /\ calls'[c].api \in {"tryResolve", "tryResolveAsync"}
                /\ calls'[c].status = "done" )
              => /\ calls'[c].res.kind = "ok"
                 /\ calls'[c].inner.kind \in ErrorKinds \cup {"ok"}
                 /\ calls'[c].inner.kind \in ErrorKinds
                       => calls'[c].res = Ok(Undefined)
                 /\ calls'[c].inner.kind = "ok"
                       => calls'[c].res = calls'[c].inner
      ]_vars

\* tryResolveAsync() of a service whose async factory throws: the
\* rejection is swallowed and the call returns undefined
C9_Witness ==
    \E c \in 1..Len(calls) :
        /\ calls[c].api = "tryResolveAsync"
        /\ calls[c].status = "done"
        /\ calls[c].inner.kind = "FactoryError"
        /\ calls[c].res = Ok(Undefined)

-----------------------------------------------------------------------------
(* C10 *)

\* the caller wrapped the token with optional()
IsOptional(tokenLike) == tokenLike[1] = "optional"

\* C10 as stated: resolve(optional(token)) returns undefined when the
\* token is unregistered and never surfaces MissingServiceError.
C10_Original ==
    \A c \in 1..Len(calls) :
        ( /\ calls[c].api = "resolve"
          /\ calls[c].status = "done"
          /\ IsOptional(calls[c].tokenLike) )
        => /\ calls[c].inner.kind # "MissingServiceError"
           /\ Candidates(calls[c].tokenLike, NoKey) = {}
                 => calls[c].inner = Ok(Undefined)

\* C10 (amended): resolve(optional(token)) returns undefined, running no
\* factory, when nothing is registered for the token (and key); when a
\* descriptor is selected it does exactly what resolve(token) does; it
\* never raises MissingServiceError for the optional token itself.  A
\* MissingServiceError for a required dependency that the selected
\* factory resolves still surfaces from the call.
C10_Optional ==
    [][ ( /\ IsCallStep
          /\ NewCall.api = "resolve"
          /\ IsOptional(NewCall.tokenLike) )
        => LET t == NewCall.tokenLike[2] IN
           /\ NewCall.status = "done"
           /\ ~ ( /\ NewCall.inner.kind = "MissingServiceError"
                  /\ NewCall.inner.token = t )
           /\ IF Candidates(NewCall.tokenLike, NewCall.key) = {}
              THEN /\ NewCall.inner = Ok(Undefined)
                   /\ invoked' = invoked
                   /\ nextId' = nextId
              ELSE /\ NewCall.inner =
                         resolveInternal(St, ProviderOf(NewCall.place),
                                         ScopeOf(NewCall.place), Token(t),
                                         NewCall.key, <<>>, FALSE, 1).res
                   /\ invoked' =
                         resolveInternal(St, ProviderOf(NewCall.place),
                                         ScopeOf(NewCall.place), Token(t),
                                         NewCall.key, <<>>, FALSE, 1).st.invoked
      ]_vars

\* resolve(optional(M)) with M unregistered returned undefined
C10_Witness ==
    \E c \in 1..Len(calls) :
        /\ calls[c].api = "resolve"
        /\ calls[c].tokenLike = optional("M")
        /\ Candidates(calls[c].tokenLike, calls[c].key) = {}
        /\ calls[c].status = "done"
        /\ calls[c].res = Ok(Undefined)
        /\ \A d \in Descs : InvokedAt(invoked, d, Places) = 0


-----------------------------------------------------------------------------
(* Reading the disposal log *)

\* the events this step appends to the log
NewEvents == SubSeq(disposeLog', Len(disposeLog) + 1, Len(disposeLog'))

\* the disposers of instances that a sequence of events invokes, in order
InstanceStarts(events) ==
    SelectSeq(events, LAMBDA e : e.what = "instance" /\ e.ev = "start")

Priority(e) == descriptors[e.d].disposePriority

\* priority descending; among equal priorities the instance created later
\* (the larger identity) comes first
Ordered(events) ==
    \A i, j \in 1..Len(events) :
        i < j =>
            \/ Priority(events[i]) > Priority(events[j])
            \/ /\ Priority(events[i]) = Priority(events[j])
               /\ events[i].x > events[j].x

-----------------------------------------------------------------------------
(* C11 *)

\* C11: whenever scope.dispose() invokes the disposers of the scope's
\* instances, it invokes them in descending disposePriority and, among equal
\* priorities, the instance materialized later in the scope first.
C11_ScopeOrder ==
    [][ \A e \in {InstanceStarts(NewEvents)} :
            (e # <<>> /\ e[1].owner \in Scopes) => Ordered(e) ]_vars

\* three Scoped instances of priorities 1, 5, 1 have been disposed by s1:
\* the priority-5 instance first, then the later-created of the other two
C11_Witness ==
    \E i \in 1..Len(disposeLog) :
        /\ i + 2 <= Len(disposeLog)
        /\ \A j \in i..(i + 2) :
              /\ disposeLog[j].what = "instance"
              /\ disposeLog[j].ev = "start"
              /\ disposeLog[j].owner = "s1"
        /\ Priority(disposeLog[i]) = 5
        /\ Priority(disposeLog[i + 1]) = 1
        /\ Priority(disposeLog[i + 2]) = 1
        /\ disposeLog[i + 1].x > disposeLog[i + 2].x

-----------------------------------------------------------------------------
(* C12 *)

\* the positions in the log of the events of dispose() call k on hooks
HookEvents(log, k) ==
    SelectSeq([i \in 1..Len(log) |-> i],
              LAMBDA i : log[i].what = "hook" /\ log[i].call = k)

\* the positions in the log of the disposers that call k has invoked
DisposerStarts(log, k) ==
    {i \in 1..Len(log) :
        log[i].what # "hook" /\ log[i].ev = "start" /\ log[i].call = k}

\* the hooks of the owner of call k that have run to completion before
\* position i of the log
HooksEndedBefore(log, k, i) ==
    {log[j].x : j \in {j \in 1..(i - 1) :
        log[j].what = "hook" /\ log[j].ev = "end" /\ log[j].call = k}}

\* the priority a hook was registered with
HookPriority(owner, id) == disposeHandlers[owner][id].priority

\* this step calls dispose() on an owner that is not a disposed scope
IsDisposeCall ==
    /\ Len(disposing') = Len(disposing) + 1
    /\ ~disposing'[Len(disposing')].noop

\* the hooks that are registered on an owner
HooksOf(owner) ==
    {disposeHandlers[owner][i].id : i \in 1..Len(disposeHandlers[owner])}

\* the hooks that a dispose() call has to run
HooksToRun(call) == {call.handlers[i].id : i \in 1..Len(call.handlers)}

\* the hooks of call k run one at a time: a hook starts only after the one
\* before it has completed, in descending priority and then in registration
\* order, and no disposer is invoked before all the hooks have completed
HooksInOrder(log, call, k) ==
    LET h == HookEvents(log, k) IN
    /\ \A n \in 1..Len(h) :
          IF n % 2 = 1
          THEN /\ log[h[n]].ev = "start"
               /\ log[h[n]].x \in HooksToRun(call)
               /\ \A m \in 1..(n - 1) :
                     m % 2 = 1 =>
                        \/ HookPriority(call.owner, log[h[m]].x)
                              > HookPriority(call.owner, log[h[n]].x)
                        \/ /\ HookPriority(call.owner, log[h[m]].x)
                                 = HookPriority(call.owner, log[h[n]].x)
                           /\ log[h[m]].x < log[h[n]].x
          ELSE /\ log[h[n]].ev = "end"
               /\ log[h[n]].x = log[h[n - 1]].x
    /\ \A i \in DisposerStarts(log, k) :
          HooksEndedBefore(log, k, i) = HooksToRun(call)
    /\ call.stage \in {"instances", "customs", "done"} =>
          \/ call.noop
          \/ HooksEndedBefore(log, k, Len(log) + 1) = HooksToRun(call)

\* C12: scope.dispose() and provider.dispose() run every hook registered on
\* the owner, one at a time (each awaited before the next starts), in
\* descending priority with registration order as the tiebreak, and start no
\* instance disposer before the last hook has completed.
C12_Hooks ==
    [][ /\ IsDisposeCall =>
              HooksToRun(disposing'[Len(disposing')]) =
                  HooksOf(disposing'[Len(disposing')].owner)
        /\ \A k \in 1..Len(disposing') :
              HooksInOrder(disposeLog', disposing'[k], k) ]_vars

\* two hooks, the second registered with the higher priority, have run in a
\* dispose() call that then invoked the disposer of an instance
C12_Witness ==
    \E k \in 1..Len(disposing) :
        /\ HooksToRun(disposing[k]) = {1, 2}
        /\ HookPriority(disposing[k].owner, 2)
              > HookPriority(disposing[k].owner, 1)
        /\ HooksEndedBefore(disposeLog, k, Len(disposeLog) + 1) = {1, 2}
        /\ \E i \in DisposerStarts(disposeLog, k) :
              disposeLog[i].what = "instance"

-----------------------------------------------------------------------------
(* C13 *)

\* the dispose() calls on an owner that have completed
Completed(owner) ==
    {k \in 1..Len(disposing) :
        disposing[k].owner = owner /\ disposing[k].stage = "done"}

\* the events of the log that belong to dispose() call k
EventsOf(log, k) == {i \in 1..Len(log) : log[i].call = k}

\* C13: once a dispose() call on a scope has completed, a later dispose()
\* call on that scope completes at once and invokes no hook, no instance
\* disposer and no custom disposer, then or later.
C13_Idempotent ==
    [][ /\ \A s \in Scopes :
              ( /\ Len(disposing') = Len(disposing) + 1
                /\ disposing'[Len(disposing')].owner = s
                /\ Completed(s) # {} )
              => /\ disposeLog' = disposeLog
                 /\ disposing'[Len(disposing')].stage = "done"
        /\ \A i \in 1..Len(NewEvents) :
              NewEvents[i].call <= Len(disposing) =>
                  disposing[NewEvents[i].call].stage # "done" ]_vars

\* s1 was disposed twice: the first call ran a hook, the disposer of an
\* instance and a custom disposer, the second call ran nothing
C13_Witness ==
    /\ Len(disposing) = 2
    /\ disposing[1].owner = "s1" /\ disposing[2].owner = "s1"
    /\ disposing[1].stage = "done" /\ disposing[2].stage = "done"
    /\ \A what \in {"hook", "instance", "custom"} :
          \E i \in EventsOf(disposeLog, 1) : disposeLog[i].what = what
    /\ EventsOf(disposeLog, 2) = {}

-----------------------------------------------------------------------------
(* C14 *)

\* the dispose() calls that this step starts or resumes
Stepped ==
    {k \in 1..Len(disposing') :
        IF k <= Len(disposing) THEN disposing'[k] # disposing[k] ELSE TRUE}

\* the values of a sequence of events
Disposed(events) == {events[i].x : i \in 1..Len(events)}

\* C14: a dispose() call on a scope invokes the disposers of the Scoped
\* instances cached in that scope, each exactly once, and of nothing else;
\* no step of the call changes the Singleton cache of a provider, the
\* process-global cache or the cache of another scope.
C14_OwnInstancesOnly ==
    [][ \A k \in Stepped :
            disposing'[k].owner \in Scopes =>
               /\ singletons' = singletons
               /\ singletonOrder' = singletonOrder
               /\ globalCache' = globalCache
               /\ \A s \in Scopes \ {disposing'[k].owner} :
                     /\ scopedInstances'[s] = scopedInstances[s]
                     /\ resolutionOrder'[s] = resolutionOrder[s]
               /\ \A e \in {InstanceStarts(NewEvents)} :
                     /\ Len(e) = Cardinality(Disposed(e))
                     /\ \A i \in 1..Len(e) :
                           descriptors[e[i].d].lifetime = Scoped
                     /\ e # <<>> =>
                           Disposed(e) =
                              Values(scopedInstances[disposing'[k].owner])
               /\ disposing'[k].stage = "instances" =>
                     Disposed(InstanceStarts(NewEvents)) =
                        Values(scopedInstances[disposing'[k].owner]) ]_vars

\* s1 and s2 each hold a Scoped instance built over a Singleton and a
\* GlobalSingleton; s1 has been disposed: one disposer ran, that of its own
\* instance, and the Singleton, the GlobalSingleton and s2 still hold theirs
C14_Witness ==
    /\ Len(disposing) = 1
    /\ disposing[1].owner = "s1" /\ disposing[1].stage = "done"
    /\ Cardinality({i \in 1..Len(disposeLog) :
                       disposeLog[i].what = "instance"
                       /\ disposeLog[i].ev = "start"}) = 1
    /\ scopedInstances["s1"] = EmptyMap
    /\ scopedInstances["s2"] # EmptyMap
    /\ singletons["p1"] # EmptyMap
    /\ globalCache # EmptyMap

-----------------------------------------------------------------------------
(* C17 *)

\* the disposers of instances that the log records, as positions
InstanceStartsAt(log) ==
    {i \in 1..Len(log) : log[i].what = "instance" /\ log[i].ev = "start"}

\* C17: when a dispose() call on a provider reaches its instances, it
\* invokes the disposer of every Singleton instance the provider holds,
\* each exactly once and none that was disposed before, in descending
\* disposePriority and, among equal priorities, the instance created later
\* first.
C17_ProviderOrder ==
    [][ \A k \in Stepped :
            ( /\ disposing'[k].owner \in Providers
              /\ disposing'[k].stage = "instances" )
            => \A e \in {InstanceStarts(NewEvents)} :
                  /\ Disposed(e) = Values(singletons[disposing'[k].owner])
                  /\ Len(e) = Cardinality(Disposed(e))
                  /\ Ordered(e)
                  /\ \A i \in InstanceStartsAt(disposeLog) :
                        disposeLog[i].x \notin Disposed(e) ]_vars

\* three Singleton instances of priorities 1, 5, 1 have been disposed by
\* p1: the priority-5 instance first, then the later-created of the others
C17_Witness ==
    /\ Len(disposing) = 1
    /\ disposing[1].owner = "p1" /\ disposing[1].stage = "done"
    /\ Cardinality(InstanceStartsAt(disposeLog)) = 3
    /\ \E i \in InstanceStartsAt(disposeLog) :
          /\ {i + 1, i + 2} \subseteq InstanceStartsAt(disposeLog)
          /\ Priority(disposeLog[i]) = 5
          /\ Priority(disposeLog[i + 1]) = 1
          /\ Priority(disposeLog[i + 2]) = 1
          /\ disposeLog[i + 1].x > disposeLog[i + 2].x
          /\ \A j \in i..(i + 2) :
                descriptors[disposeLog[j].d].lifetime = Singleton

-----------------------------------------------------------------------------
(* C16 *)

\* the step is a call that selects a GlobalSingleton whose key the
\* process-global cache holds
HitsGlobal(d) ==
    /\ IsCallStep
    /\ Picked(NewCall) = d
    /\ descriptors[d].lifetime = GlobalSingleton
    /\ globalKeyFor(descriptors[d]) \in DOMAIN globalCache

\* C16: no step of a dispose() call on a provider changes the process-global
\* cache or invokes a disposer of a GlobalSingleton value; once a provider
\* has been disposed, a call from any provider or scope that selects a
\* GlobalSingleton held by the process-global cache returns the held
\* reference and invokes no factory.
C16_GlobalOutlives ==
    [][ /\ \A k \in Stepped :
              disposing'[k].owner \in Providers =>
                 /\ globalCache' = globalCache
                 /\ globalPromises' = globalPromises
                 /\ \A i \in 1..Len(NewEvents) :
                       NewEvents[i].what # "hook" =>
                          /\ descriptors[NewEvents[i].d].lifetime
                                # GlobalSingleton
                          /\ NewEvents[i].x \notin Values(globalCache)
        /\ \A d \in Descs :
              (HitsGlobal(d) /\ \E p \in Providers : Completed(p) # {})
              => /\ NewCall.res = Ok(globalCache[globalKeyFor(descriptors[d])])
                 /\ invoked' = invoked
                 /\ globalCache' = globalCache ]_vars

\* p1 materialized the GlobalSingleton A over two Singletons and was then
\* disposed, which disposed the two Singletons; after that, p2 resolved A,
\* got the reference p1 had got, and the factory of A ran once in all
C16_Witness ==
    /\ Len(calls) = 2 /\ Len(disposing) = 1
    /\ descriptors[1].lifetime = GlobalSingleton
    /\ disposing[1].owner = "p1" /\ disposing[1].stage = "done"
    /\ Cardinality(InstanceStartsAt(disposeLog)) = 2
    /\ calls[1].place = "p1" /\ calls[1].seen = 0
    /\ calls[2].place = "p2" /\ calls[2].seen = 1
    /\ calls[1].res.kind = "ok"
    /\ calls[2].res = calls[1].res
    /\ InvokedAt(invoked, 1, Places) = 1

-----------------------------------------------------------------------------
(* C15 *)

\* the GlobalSingleton descriptors registered under a global cache key
GlobalsOf(g) ==
    {d \in Descs : /\ descriptors[d].lifetime = GlobalSingleton
                   /\ globalKeyFor(descriptors[d]) = g}

GlobalKeys == {globalKeyFor(descriptors[d]) : d \in Descs}

\* C15: for the GlobalSingleton registrations of one global cache key,
\* whatever provider or scope they are resolved from: a synchronous call
\* that finds the key absent and succeeds stores the value it returns; once
\* the process-global cache holds the key, a call returns the held reference,
\* no step invokes a factory registered under the key and the held value is
\* not replaced; all successful calls return the same reference.
C15_GlobalShared ==
    [][ \A g \in GlobalKeys :
          /\ ( /\ IsCallStep
               /\ Picked(NewCall) \in GlobalsOf(g)
               /\ g \notin DOMAIN globalCache
               /\ IsSync(NewCall)
               /\ Succeeded(NewCall) )
             => MapGet(globalCache', g) = NewCall.res.val
          /\ g \in DOMAIN globalCache =>
                /\ MapGet(globalCache', g) = globalCache[g]
                /\ \A d \in GlobalsOf(g) :
                      InvokedAt(invoked', d, Places)
                         = InvokedAt(invoked, d, Places)
                /\ (IsCallStep /\ Picked(NewCall) \in GlobalsOf(g))
                   => /\ NewCall.res = Ok(globalCache[g])
                      /\ invoked' = invoked
          /\ \A c1, c2 \in 1..Len(calls') :
                ( /\ Succeeded(calls'[c1]) /\ Succeeded(calls'[c2])
                  /\ Picked(calls'[c1]) \in GlobalsOf(g)
                  /\ Picked(calls'[c2]) \in GlobalsOf(g) )
                => calls'[c1].inner.val = calls'[c2].inner.val ]_vars

\* p1 resolved A and p2 resolved B, registered under the same global key:
\* both got the same reference, A's factory ran once and B's never
C15_Witness ==
    /\ Len(calls) = 2
    /\ globalKeyFor(descriptors[1]) = globalKeyFor(descriptors[2])
    /\ calls[1].place = "p1" /\ Picked(calls[1]) = 1
    /\ calls[2].place = "p2" /\ Picked(calls[2]) = 2
    /\ Succeeded(calls[1]) /\ Succeeded(calls[2])
    /\ calls[1].res = calls[2].res
    /\ InvokedAt(invoked, 1, Places) = 1
    /\ InvokedAt(invoked, 2, Places) = 0

-----------------------------------------------------------------------------
(* C18 *)

\* the dispose() calls made on an owner
DisposeCallsOn(dis, owner) == {k \in 1..Len(dis) : dis[k].owner = owner}

\* the scope of invocation r is its own; dispose() is called on it not at
\* all while the work runs and exactly once from the moment the work has
\* settled; the wrapper settles after that call has completed, with the
\* value the work returned or with the failure the work raised
Wrapped(reqs, dis, r) ==
    /\ \A q \in 1..Len(reqs) : q # r => reqs[q].scope # reqs[r].scope
    /\ Cardinality(DisposeCallsOn(dis, reqs[r].scope))
          = IF reqs[r].stage = "work" THEN 0 ELSE 1
    /\ reqs[r].stage = "done" =>
          /\ \A k \in DisposeCallsOn(dis, reqs[r].scope) :
                dis[k].stage = "done"
          /\ reqs[r].outcome.how = "returns" =>
                /\ reqs[r].result.how = "fulfilled"
                /\ reqs[r].kind # "middleware" =>
                      reqs[r].result.val = reqs[r].outcome.val
          /\ reqs[r].outcome.how \in {"throws", "rejects"} =>
                /\ reqs[r].result.how = "rejected"
                /\ reqs[r].result.val = reqs[r].outcome.val

\* a scope nothing has used yet
Fresh(scope) ==
    /\ scopedInstances[scope] = EmptyMap
    /\ scopedPromises[scope] = EmptyMap
    /\ resolutionOrder[scope] = <<>>
    /\ disposeHandlers[scope] = <<>>
    /\ ~disposed[scope]
    /\ DisposeCallsOn(disposing, scope) = {}

-----------------------------------------------------------------------------
(* C20 *)

\* the registrations of the token of a call, in registration order
Under(call) == Grouped(descriptors, call.tokenLike[2])

\* the registration can be resolved synchronously at the place: its factory
\* does not throw and, at a provider, it is not Scoped
Resolvable(d, place) ==
    /\ ~descriptors[d].fails
    /\ descriptors[d].lifetime = Scoped => place \in Scopes

-----------------------------------------------------------------------------
(* C19 *)

KeyOf(d) == descriptors[d].key

\* some registration of the token has no key, or two share a key
BadKeys(ds) ==
    \/ \E i \in 1..Len(ds) : KeyOf(ds[i]) = NoKey
    \/ \E i, j \in 1..Len(ds) : i # j /\ KeyOf(ds[i]) = KeyOf(ds[j])

\* C19: a resolveMap(token) call returns the empty map when the token has no
\* registration; it raises an error when a registration of the token has no
\* key or two registrations share a key; otherwise, when every registration
\* can be resolved, it returns a map with exactly one entry per registration,
\* from the key of the registration to its resolved value.
C19_ResolveMap ==
    [][ (IsCallStep /\ NewCall.api = "resolveMap") =>
          /\ Under(NewCall) = <<>> => NewCall.res = Ok(EmptyMap)
          /\ BadKeys(Under(NewCall)) => IsError(NewCall.res)
          /\ ( /\ Under(NewCall) # <<>>
               /\ ~BadKeys(Under(NewCall))
               /\ \A i \in 1..Len(Under(NewCall)) :
                     Resolvable(Under(NewCall)[i], NewCall.place) )
             => /\ NewCall.res.kind = "ok"
                /\ DOMAIN NewCall.res.val =
                      {KeyOf(Under(NewCall)[i]) : i \in 1..Len(Under(NewCall))}
                /\ \A i \in 1..Len(Under(NewCall)) :
                      IF descriptors[Under(NewCall)[i]].lifetime = Transient
                      THEN /\ NewCall.res.val[KeyOf(Under(NewCall)[i])]
                                >= nextId
                           /\ NewCall.res.val[KeyOf(Under(NewCall)[i])]
                                < nextId'
                      ELSE NewCall.res.val[KeyOf(Under(NewCall)[i])] =
                              CachedNext(Under(NewCall)[i], NewCall.place)
      ]_vars

-----------------------------------------------------------------------------
(* Reading the registration log *)

\* the registration made by this step
LastAdd == registrations'[Len(registrations')]

\* this step is an add...() call
Adding ==
    /\ Len(registrations') = Len(registrations) + 1
    /\ LastAdd.op = "add"

\* this step is a registration that asks for a single descriptor on a
\* collection that does not allow overwriting
AddingSingle == Adding /\ ~LastAdd.multiple /\ ~services.allowOverwrite

\* the descriptors the collection holds under a token
Held(collection, token) == existingFor(collection.entries, token)

\* a descriptor of the collection with this token and this key
SlotTaken(collection, token, key) ==
    \E i \in 1..Len(Held(collection, token)) :
        Held(collection, token)[i].key = key

-----------------------------------------------------------------------------
(* C21 *)

\* C21 as stated: on a collection that does not allow overwriting, a
\* registration with multiple=false throws and changes nothing when its
\* (token,key) slot is taken, and succeeds when that slot is free.
C21_Original ==
    [][AddingSingle =>
          IF SlotTaken(services, LastAdd.token, LastAdd.key)
          THEN LastAdd.threw /\ services' = services
          ELSE ~LastAdd.threw]_vars

\* C21 amended: on a collection that does not allow overwriting, a
\* registration with multiple=false throws and leaves the collection's
\* descriptors unchanged when its token already has a descriptor, whatever the
\* keys; it succeeds, and its descriptor is the token's only one, when the
\* token has none.
C21_TokenTaken ==
    [][AddingSingle =>
          IF Len(Held(services, LastAdd.token)) > 0
          THEN LastAdd.threw /\ services' = services
          ELSE /\ ~LastAdd.threw
               /\ Len(Held(services', LastAdd.token)) = 1
               /\ Held(services', LastAdd.token)[1].id = LastAdd.id
               /\ Held(services', LastAdd.token)[1].key = LastAdd.key]_vars

\* a registration for a free (token,key) slot has thrown, after one that
\* succeeded
C21_Witness ==
    /\ ~services.allowOverwrite
    /\ Len(registrations) = 2
    /\ registrations[1].op = "add" /\ ~registrations[1].threw
    /\ registrations[2].op = "add" /\ registrations[2].threw
    /\ ~registrations[2].multiple
    /\ registrations[2].token = registrations[1].token
    /\ registrations[2].key # registrations[1].key
    /\ Len(Held(services, registrations[1].token)) = 1

-----------------------------------------------------------------------------
(* C22 *)

\* the position of the build() call in the log, 0 before it
BuiltAt ==
    IF \E i \in 1..Len(registrations) : registrations[i].op = "build"
    THEN CHOOSE i \in 1..Len(registrations) : registrations[i].op = "build"
    ELSE 0

\* the registrations of a token that succeeded before build(), in order
Registrations(token) ==
    SelectSeq(IF BuiltAt = 0 THEN registrations
              ELSE SubSeq(registrations, 1, BuiltAt - 1),
              LAMBDA r : r.op = "add" /\ r.token = token /\ ~r.threw)

\* the registry: what the provider holds, or what build() would hand over
Registry == IF built THEN descriptors ELSE build(services)

\* the descriptors of a token in the registry
InRegistry(token) ==
    LET ds == Grouped(Registry, token) IN
    [i \in 1..Len(ds) |-> Registry[ds[i]]]

\* the last single registration among rs, 0 when all of them are multiple
LastSingle(rs) ==
    IF \E i \in 1..Len(rs) : ~rs[i].multiple
    THEN CHOOSE i \in 1..Len(rs) :
            ~rs[i].multiple /\ \A j \in (i + 1)..Len(rs) : rs[j].multiple
    ELSE 0

\* the registrations whose descriptors remain: the last single one and the
\* multiple ones after it
Remaining(rs) ==
    IF LastSingle(rs) = 0 THEN rs ELSE SubSeq(rs, LastSingle(rs), Len(rs))

\* C22: in every built registry, a token none of whose registrations was
\* flagged multiple has exactly one descriptor, the one registered last; the
\* descriptors of a token are those of its last single registration and of
\* the multiple registrations after it, in the order registered, so a second
\* descriptor under a token, or in a (token,key) slot, always comes from a
\* registration flagged multiple.
C22_OneOwner ==
    \A token \in {"A", "B"} :
        LET rs == Registrations(token)
            ds == InRegistry(token)
        IN /\ ((\A i \in 1..Len(rs) : ~rs[i].multiple) /\ Len(rs) > 0
                  => Len(ds) = 1 /\ ds[1].id = rs[Len(rs)].id)
           /\ Len(ds) = Len(Remaining(rs))
           /\ \A i \in 1..Len(ds) :
                 /\ ds[i].id = Remaining(rs)[i].id
                 /\ ds[i].key = Remaining(rs)[i].key
                 /\ i > 1 => Remaining(rs)[i].multiple

\* a built registry after a multiple, a single and a multiple registration of
\* one token: the single one has replaced the first, the last one shares its
\* (token,key) slot
C22_Witness ==
    /\ built
    /\ Len(Registrations("A")) = 3
    /\ Registrations("A")[1].multiple
    /\ ~Registrations("A")[2].multiple
    /\ Len(InRegistry("A")) = 2
    /\ InRegistry("A")[1].id = Registrations("A")[2].id
    /\ InRegistry("A")[2].id = Registrations("A")[3].id
    /\ InRegistry("A")[1].key = InRegistry("A")[2].key

-----------------------------------------------------------------------------
(* C23 *)

\* the id of the descriptor a list gives for a token and a key, 0 when none
PickedId(list, token, key) ==
    IF pickDescriptor(list, token, key) = 0 THEN 0
    ELSE list[pickDescriptor(list, token, key)].id

-----------------------------------------------------------------------------
(* C24 *)

\* the validateGraph() call this step makes
NewValidation == diagnostics'[Len(diagnostics')]

\* the call reports an error-level diagnostic for the token
ErrorFor(call, token) ==
    \E i \in 1..Len(call.found) :
        call.found[i].level = "error" /\ call.found[i].token = token

\* the descriptors of a token in the provider's registry, by key
WithKey(token, key) ==
    {d \in 1..Len(descriptors) :
        descriptors[d].token = token /\ descriptors[d].key = key}

\* C24: validateGraph reports an error-level diagnostic for a token exactly
\* when two or more of its descriptors share a key, or requireKeysForMultiple
\* is set and the token has two or more descriptors without a key, or the
\* token is listed as required and has no registration; everything else is
\* a warning; the call invokes no factory and changes no cache.
C24_ValidateGraph ==
    [][Len(diagnostics') = Len(diagnostics) + 1 =>
          /\ \A token \in {"A", "B", "C"} :
                ErrorFor(NewValidation, token) <=>
                    \/ \E key \in {"a"} : Cardinality(WithKey(token, key)) > 1
                    \/ /\ NewValidation.options.requireKeysForMultiple
                       /\ Cardinality(WithKey(token, NoKey)) > 1
                    \/ /\ \E i \in 1..Len(NewValidation.options.unusedTokens) :
                             NewValidation.options.unusedTokens[i] = token
                       /\ \A d \in 1..Len(descriptors) :
                             descriptors[d].token # token
          /\ NewValidation.threw <=>
                /\ NewValidation.options.throwOnError
                /\ \E token \in {"A", "B", "C"} : ErrorFor(NewValidation, token)
          /\ UNCHANGED <<descriptors, singletons, singletonPromises,
                         globalCache, globalPromises, scopedInstances,
                         scopedPromises, tasks, invoked, nextId>>]_vars

-----------------------------------------------------------------------------
(* Reading the callback log *)

\* the callbacks this step has run, in order
NewCallbacks ==
    SubSeq(trace'.events, Len(trace.events) + 1, Len(trace'.events))

\* the descriptor the factory of d resolves first, 0 when it resolves none
FirstDep(d) ==
    IF descriptors[d].deps = <<>> THEN 0
    ELSE pickDescriptor(descriptors, descriptors[d].deps[1].token,
                        descriptors[d].deps[1].key)

\* the event options.trace is given for the selection of d
IsTraceOf(event, d, async) ==
    /\ event.kind = "trace"
    /\ event.token = descriptors[d].token
    /\ event.key = descriptors[d].key
    /\ event.lifetime = descriptors[d].lifetime
    /\ event.async = async
    /\ Len(event.path) > 0
    /\ event.path[Len(event.path)]
          = formatFrame(Frame(descriptors[d].token, descriptors[d].key))

HowMany(events, Test(_)) == Len(SelectSeq(events, Test))

-----------------------------------------------------------------------------
(* C25 *)

\* C25: with a trace callback configured, every descriptor selection of a
\* resolve() or resolveAsync(), at the top level or made by a factory, cached
\* or not, runs the callback exactly once, before the factory of the selected
\* descriptor, with the descriptor's token, key and lifetime, a path that
\* ends in the selected frame, and the async flag of the call.
C25_Traced ==
    [][LET E == NewCallbacks IN
       /\ IsCallStep /\ Picked(NewCall) # 0 =>
             /\ Len(E) > 0
             /\ IsTraceOf(E[1], Picked(NewCall), ~IsSync(NewCall))
             /\ Len(E[1].path) = 1
       /\ \A i \in 1..Len(E) : E[i].kind = "factory" =>
             /\ i > 1
             /\ IsTraceOf(E[i - 1], E[i].d, E[i - 1].async)
             /\ FirstDep(E[i].d) # 0 =>
                   /\ i < Len(E)
                   /\ IsTraceOf(E[i + 1], FirstDep(E[i].d),
                                descriptors[E[i].d].isAsync)
       /\ HowMany(E, LAMBDA e : e.kind = "trace")
             = (IF IsCallStep /\ Picked(NewCall) # 0 THEN 1 ELSE 0)
               + HowMany(E, LAMBDA e : e.kind = "factory"
                                       /\ FirstDep(e.d) # 0)]_vars

\* a call has selected C, whose factory has selected the cached A: the
\* callback has run for both and only the factory of C has run
C25_Witness ==
    /\ Len(calls) = 2
    /\ calls[1].tokenLike = Token("A") /\ calls[1].res.kind = "ok"
    /\ calls[2].tokenLike = Token("C") /\ calls[2].res.kind = "ok"
    /\ Len(trace.events) = 7
    /\ trace.events[5].kind = "trace" /\ trace.events[5].token = "C"
    /\ trace.events[6].kind = "factory" /\ trace.events[6].token = "C"
    /\ trace.events[7].kind = "trace" /\ trace.events[7].token = "A"
    /\ Len(trace.events[7].path) = 2

-----------------------------------------------------------------------------
(* C26 *)

\* C26: every resolveAsync() call eventually settles, fulfilled or rejected,
\* whatever the interleaving of concurrent calls; calls that enter a cycle of
\* async cached services at different tokens end with CircularDependencyError
\* and do not wait for each other's in-flight promises for ever.
C26_Settles ==
    \A c \in 1..MaxCalls :
        (Len(calls) >= c) ~> (Len(calls) >= c /\ calls[c].status = "done")

-----------------------------------------------------------------------------
(* C27 *)

\* the frame of a descriptor selected without a key
FrameOf(d) == Frame(descriptors[d].token, descriptors[d].key)

RECURSIVE ChainFrom(_, _)
\* the frames from descriptor d down to the descriptor of a token, along the
\* dependencies
ChainFrom(d, token) ==
    IF descriptors[d].token = token \/ FirstDep(d) = 0 THEN <<FrameOf(d)>>
    ELSE <<FrameOf(d)>> \o ChainFrom(FirstDep(d), token)

PathErrors == {"MissingServiceError", "AsyncFactoryError",
               "ScopeResolutionError", "CircularDependencyError"}

\* the errors that have come back carry the chain from the token of the call
\* down to the token that raised them
FullErrorPaths(cs) ==
    \A c \in 1..Len(cs) :
        cs[c].status = "done" /\ cs[c].inner.kind \in PathErrors =>
            cs[c].inner.path = ChainFrom(Picked(cs[c]), cs[c].inner.token)

\* C27: the resolver handed to a factory is bound to the path extended by the
\* factory's own frame: the path of every trace event of a nested resolution
\* is the path of the resolution that ran the factory plus the frame
\* selected, and the path of every error raised is the chain of frames from
\* the top-level call down to the frame being resolved, whatever the
\* lifetimes on the way.
C27_FullPath ==
    [][LET E == NewCallbacks IN
       /\ \A i \in 2..(Len(E) - 1) :
             E[i].kind = "factory" /\ FirstDep(E[i].d) # 0
                 /\ E[i - 1].kind = "trace" /\ E[i + 1].kind = "trace" =>
                 E[i + 1].path
                     = Append(E[i - 1].path,
                              formatFrame(FrameOf(FirstDep(E[i].d))))
       /\ FullErrorPaths(calls')]_vars

-----------------------------------------------------------------------------
(* C28 *)

\* the disposer of the same instance, invoked by the same call, has
\* completed before position i of the log
EndedBefore(log, e, i) ==
    \E k \in 1..(i - 1) :
        /\ log[k].ev = "end" /\ log[k].what = e.what
        /\ log[k].call = e.call /\ log[k].d = e.d

\* C28: during a dispose() call, the disposer of an instance with a lower
\* disposePriority is not started before the disposer of every instance
\* with a higher disposePriority has completed.
C28_CrossPriority ==
    \A i, j \in 1..Len(disposeLog) :
        /\ disposeLog[i].ev = "start" /\ disposeLog[i].what = "instance"
        /\ disposeLog[j].ev = "start" /\ disposeLog[j].what = "instance"
        /\ disposeLog[j].call = disposeLog[i].call
        /\ Priority(disposeLog[j]) > Priority(disposeLog[i])
        => EndedBefore(disposeLog, disposeLog[j], i)

-----------------------------------------------------------------------------
(* C29 *)

\* a disposer of a descriptor is invoked: the instance's own dispose method,
\* or the custom disposer given at registration
IsDisposerStart(e) == e.ev = "start" /\ e.what \in {"instance", "custom"}

\* the instance of descriptor d that the call disposes: instances are
\* numbered in the order they are created
InstanceIn(log, call, d) ==
    LET es == SelectSeq(log, LAMBDA e : /\ e.ev = "start" /\ e.what = "instance"
                                        /\ e.call = call /\ e.d = d)
    IN IF es = <<>> THEN 0 ELSE es[1].x

-----------------------------------------------------------------------------
(* C30 *)

\* every promise an in-flight map holds is unsettled
Unsettled(map) == \A k \in DOMAIN map : tasks[map[k]].status = "pending"

\* C30: an in-flight entry exists only while its materialization is
\* unsettled: once the factory's promise has settled, fulfilled or rejected,
\* the in-flight map of its tier (provider, scope or process-global) holds
\* no entry for that cache key.
C30_InFlightUnsettled ==
    /\ \A p \in Providers : Unsettled(singletonPromises[p])
    /\ \A scope \in Scopes : Unsettled(scopedPromises[scope])
    /\ Unsettled(globalPromises)

-----------------------------------------------------------------------------
(* C31 *)

\* C31: the process-global cache is written only when the key is absent:
\* once a global cache key holds a value, no step of any resolution, sync or
\* async, top-level or nested in another GlobalSingleton's factory, replaces
\* or removes it.
C31_WriteIfAbsent ==
    [][\A k \in DOMAIN globalCache :
          k \in DOMAIN globalCache' /\ globalCache'[k] = globalCache[k]]_vars

-----------------------------------------------------------------------------
(* C32 *)

\* the factory of descriptor d has run, at some provider or scope
Produced(d) == \E pl \in Places : invoked[d][pl] > 0

\* C32: GlobalSingleton descriptors registered under distinct tokens, or
\* under one token with distinct keys, and without an explicit globalKey
\* never share a process-global cache entry: a call that returns a service
\* returns a value of the factory of the descriptor it selects, so that
\* factory has run.
C32_OwnEntry ==
    \A c \in 1..Len(calls) :
        /\ calls[c].status = "done"
        /\ ~IsError(calls[c].res)
        => Produced(pickDescriptor(descriptors, unwrapToken(calls[c].tokenLike).token,
                                   calls[c].key))

-----------------------------------------------------------------------------
(* C33 *)

\* the list is a run of consecutive elements of the chain
IsSegment(list, chain) ==
    \E k \in 0..(Len(chain) - Len(list)) :
        list = SubSeq(chain, k + 1, k + Len(list))

\* the only chain of dependencies of the registry: C, A, B
WholeChain == ChainFrom(3, "B")

\* C33: concurrent top-level calls have independent paths: under every
\* interleaving of resolve() and resolveAsync() calls and of the
\* continuations of async factories, every path, traced or held by a pending
\* factory, is a run of the dependency chain without a frame of another call
\* and without a repeated frame, and on this registry without cycles no call
\* raises CircularDependencyError.
C33_IndependentPaths ==
    /\ LET labels == formatPath(WholeChain) IN
       \A i \in 1..Len(trace.events) :
          trace.events[i].kind = "trace" =>
              IsSegment(trace.events[i].path, labels)
    /\ LET chain == WholeChain IN
       \A t \in 1..Len(tasks) : IsSegment(tasks[t].stack, chain)
    /\ \A c \in 1..Len(calls) :
          calls[c].inner.kind # "CircularDependencyError"

\* two async calls are in flight and a third call has been made
C33_Witness ==
    /\ Len(calls) >= 2
    /\ Len(SelectSeq(tasks, LAMBDA t : t.status = "pending")) >= 2
    /\ \E t \in 1..Len(tasks) : Len(tasks[t].stack) >= 2
    /\ \E i \in 1..Len(trace.events) : Len(trace.events[i].path) = 3

-----------------------------------------------------------------------------
(* C34 *)

\* the instance of descriptor d that a resolution at the place finds cached
\* in the tier of d
ValueAt(d, pl) ==
    CASE descriptors[d].lifetime = Singleton ->
            MapGet(singletons[ProviderOf(pl)], d)
      [] descriptors[d].lifetime = Scoped ->
            IF pl \in Scopes THEN MapGet(scopedInstances[pl], d) ELSE Undefined
      [] descriptors[d].lifetime = GlobalSingleton ->
            MapGet(globalCache, globalKeyFor(descriptors[d]))
      [] OTHER -> Undefined

\* the resolution order of the owner of d's tier at the place
OrderAt(d, pl) ==
    CASE descriptors[d].lifetime = Singleton -> singletonOrder[ProviderOf(pl)]
      [] descriptors[d].lifetime = Scoped /\ pl \in Scopes -> resolutionOrder[pl]
      [] OTHER -> <<>>

\* where d stands in the order, 0 when it is not recorded
Position(order, d) ==
    IF \E i \in 1..Len(order) : order[i] = d
    THEN CHOOSE i \in 1..Len(order) : order[i] = d
    ELSE 0

\* the places whose resolutions may have cached d at the place: a Scoped
\* instance is made by a resolution in its scope
MadeFrom(d, pl) == IF descriptors[d].lifetime = Scoped THEN {pl} ELSE TracePlaces

\* C34: a dependency that a factory resolves through its resolver is
\* materialized, cached in its tier and recorded in its owner's resolution
\* order before the dependent is cached and recorded: wherever a dependent
\* is cached, its dependency is cached with an earlier instance and is
\* recorded, ahead of the dependent when both have the same owner.
C34_DependencyFirst ==
    \A pl \in TracePlaces : \A d \in 1..Len(descriptors) :
        ValueAt(d, pl) # Undefined /\ FirstDep(d) # 0 =>
            \E from \in MadeFrom(d, pl) :
                LET dep == FirstDep(d) IN
                /\ ValueAt(dep, from) # Undefined
                /\ ValueAt(dep, from) < ValueAt(d, pl)
                /\ Position(OrderAt(dep, from), dep) > 0
                /\ descriptors[dep].lifetime = descriptors[d].lifetime =>
                      /\ Position(OrderAt(d, pl), d) > 0
                      /\ Position(OrderAt(dep, from), dep)
                            < Position(OrderAt(d, pl), d)

\* A and its dependency B are both recorded by one owner
C34_Witness ==
    \E pl \in TracePlaces :
        /\ ValueAt(2, pl) # Undefined
        /\ descriptors[2].lifetime = descriptors[1].lifetime
        /\ Len(OrderAt(2, pl)) = 2

-----------------------------------------------------------------------------
(* C35 *)

\* how often the factory of d has run, anywhere
Invocations(inv, d) == InvokedAt(inv, d, Places)

\* what the failure of a factory, or of what it resolves, looks like
Failures == {"FactoryError", "ScopeResolutionError", "AsyncFactoryError"}

\* the failures have reached the callers and nothing else has
Surfaced(cs, ts, inv) ==
    /\ \A c \in 1..Len(cs) : cs[c].status = "done" =>
          /\ cs[c].res.kind \in Failures
          /\ cs[c].api = "resolveAsync" /\ cs[c].wait.kind = "promise" =>
                cs[c].res = ts[cs[c].wait.tid].res
          /\ cs[c].res.kind = "FactoryError" =>
                /\ cs[c].res.token = "B"
                /\ Invocations(inv, 1) >= 1
    /\ \A t \in 1..Len(ts) :
          /\ ts[t].status # "fulfilled"
          /\ ts[t].status = "rejected" => ts[t].res.kind \in Failures

-----------------------------------------------------------------------------
(* C36 *)

\* the same hook, or the disposer of the same instance, or the custom
\* disposer of the same descriptor, is invoked
SameDisposer(e, f) ==
    /\ e.ev = "start" /\ f.ev = "start"
    /\ e.what = f.what /\ e.owner = f.owner /\ e.d = f.d /\ e.x = f.x

\* C36: overlapping dispose() calls on one scope dispose nothing twice: when
\* dispose() is called again while an earlier call on the scope is still
\* awaiting a hook or a disposer, every hook, every instance disposer and
\* every custom disposer is still invoked at most once in total.
C36_NothingTwice ==
    \A i, j \in 1..Len(disposeLog) :
        SameDisposer(disposeLog[i], disposeLog[j]) => i = j

-----------------------------------------------------------------------------
(* C37 *)

\* C37: after scope.dispose() has completed, the scope's cache stays empty:
\* no later resolve() or resolveAsync() on the scope, and no async
\* materialization that was in flight when dispose() was called, stores a
\* Scoped instance in the disposed scope.
C37_StaysEmpty ==
    \A scope \in Scopes : disposed[scope] => scopedInstances[scope] = EmptyMap

-----------------------------------------------------------------------------
(* C39 *)

\* no resolution has been made since the first dispose() call completed
NoneResolvedSince == \A c \in 1..Len(calls) : calls[c].seen = 0

\* C39: provider.dispose() is idempotent: a second provider.dispose() with
\* no resolution in between invokes no registered dispose hook, no instance
\* disposer and no custom disposer.
C39_ProviderIdempotent ==
    NoneResolvedSince =>
        \A i \in 1..Len(disposeLog) :
            disposeLog[i].owner \in Providers /\ disposeLog[i].ev = "start"
                => disposeLog[i].call = 1

-----------------------------------------------------------------------------
(* C40 *)

\* this step is a resolveMap() call that raises for a missing key or for a
\* duplicate one
MapRefused ==
    /\ IsCallStep
    /\ NewCall.api = "resolveMap"
    /\ NewCall.res.kind = "Error"

\* C40: a resolveMap(token) call that raises, because a descriptor under the
\* token has no key or duplicates a key, has no side effects: it invokes no
\* factory and leaves the provider, scope and process-global caches
\* unchanged.
C40_NoSideEffects ==
    [][MapRefused =>
          /\ invoked' = invoked
          /\ singletons' = singletons /\ singletonOrder' = singletonOrder
          /\ scopedInstances' = scopedInstances
          /\ resolutionOrder' = resolutionOrder
          /\ globalCache' = globalCache]_vars

-----------------------------------------------------------------------------
(* C38 *)

\* C38: inside a factory, resolver.resolveAll(token) resolves against the
\* scope of the enclosing resolution: a resolve() or resolveAsync() of A made
\* on a scope never ends with ScopeResolutionError, and when it has made the
\* Scoped instance of A in that scope, the Scoped registrations of B have
\* their instances in that scope too.
C38_SameScope ==
    \A c \in 1..Len(calls) :
        /\ calls[c].place \in Scopes
        /\ calls[c].tokenLike = Token("A")
        /\ calls[c].status = "done"
        => /\ calls[c].res.kind # "ScopeResolutionError"
           /\ MapHas(scopedInstances[calls[c].place], 3) =>
                 \A d \in {1, 2} :
                     descriptors[d].lifetime = Scoped =>
                         MapHas(scopedInstances[calls[c].place], d)

====
